---- MODULE Spec2Model ----
(***************************************************************************)
(* Model of the isolation cog of Tiko Helper (src/Tiko Helper/isolation.py). *)
(* One guild.  The cog's four persisted lists, its in-memory role cache and *)
(* the backing JSON file are the program state; the roles of the member     *)
(* under moderation and that member's channel overwrites are the platform   *)
(* state the handlers change through remote calls.  Every handler is one    *)
(* action; every remote call of a handler may be refused by the platform.   *)
(***************************************************************************)
EXTENDS Integers, Sequences, FiniteSets, TLC

\* ------------------------------------------------------------------ bounds
NumRoles == 3
NumChannels == 2
\* at most this many remote calls (platform calls, the file write) of one
\* handler run are refused
MaxFailures == 2
\* at most this many configuration edits (list commands, setup runs) are made
MaxEdits == 2
\* the lists of a store handed to save hold at most this many entries
MaxLen == 2

\* IDs live in one numeric namespace (allowed_ids mixes user and role IDs).
\* The cast: the guild owner, a moderator, the member under moderation.
Members == {1, 2, 3}
RoleIds == 11..(10 + NumRoles)
ChannelIds == 21..(20 + NumChannels)

\* ------------------------------------------------------------ environment
\* ctx.guild.owner_id
GuildOwnerId == 1
\* self.owner_id: the configured operator is the moderator (member 2)
AppOwnerId == 2
\* the member the isolate/unisolate commands are aimed at (besides the caller)
Subject == 3
\* a user who was isolated, then left the guild without being banned
Leaver == 7
\* the role the moderator (member 2) holds
HelperRole == 12
\* position of @everyone, the top role of a member without roles
EveryonePos == 0
\* guild.me.top_role: the bot's highest role is the guild's highest role
BotTopRole == 10 + NumRoles
\* guild.get_channel(staff_channel_id) resolves to a text channel
StaffChannelPresent == TRUE

VARIABLES
    allowed_ids,      \* self._allowed_ids      (list of user/role IDs)
    roles,            \* self._roles            (list of isolation role IDs)
    channels,         \* self._channels         (list of isolation channel IDs)
    isolated_users,   \* self._isolated_users   (list of member IDs)
    isolation_cache,  \* self._isolation_cache[guild.id]: member -> role IDs
    file,             \* content of ISO_PERMS_FILE
    member_roles,     \* platform: member -> set of non-default role IDs
    overwrites,       \* platform: channel -> Subject's member overwrite
    manage_roles,     \* platform: guild.me.guild_permissions.manage_roles
    banned,           \* platform: the guild's banned users
    guild_roles,      \* platform: guild.roles, the IDs of the roles that exist
    guild_channels,   \* platform: guild.channels, the IDs of the channels that exist
    role_ow,          \* platform: channel -> the setup role's overwrite there
    elsewhere,        \* platform: a second guild the bot is in (bans, Subject's roles)
    edits,            \* number of configuration edits made so far
    tasks,            \* the two overlapping handler runs: position and locals
    calls,            \* remote calls issued by the last handler, in order
    lastOp            \* what the last handler was called with and did

progVars == <<allowed_ids, roles, channels, isolated_users, isolation_cache, file>>
guildVars == <<guild_roles, guild_channels, role_ow, elsewhere>>
platVars == <<member_roles, overwrites, manage_roles, banned, guildVars>>
vars == <<allowed_ids, roles, channels, isolated_users, isolation_cache, file,
          member_roles, overwrites, manage_roles, banned, guildVars, edits, tasks,
          calls, lastOp>>

\* ---------------------------------------------------------------- helpers
Range(s) == {s[i] : i \in 1..Len(s)}

InList(x, s) == \E i \in 1..Len(s) : s[i] = x

Min(S) == CHOOSE x \in S : \A y \in S : x <= y

Max(S) == CHOOSE x \in S : \A y \in S : y <= x

\* sorted(set(...)) of _save_store
RECURSIVE SortedSeq(_)
SortedSeq(S) == IF S = {} THEN <<>> ELSE <<Min(S)>> \o SortedSeq(S \ {Min(S)})

\* [x for x in s if x != v]
RECURSIVE Without(_, _)
Without(s, v) ==
    IF s = <<>> THEN <<>>
    ELSE IF Head(s) = v THEN Without(Tail(s), v)
    ELSE <<Head(s)>> \o Without(Tail(s), v)

RECURSIVE Count(_, _)
Count(s, v) ==
    IF s = <<>> THEN 0
    ELSE (IF Head(s) = v THEN 1 ELSE 0) + Count(Tail(s), v)

\* ------------------------------------------------------- persistent store
DefaultStore ==
    [allowed_ids |-> <<>>, roles |-> <<>>, channels |-> <<>>, isolated_users |-> <<>>]

\* The file holds one JSON object ("json"), a flat JSON list of allowed IDs
\* ("list", the earlier format), or a cut-off write.
GarbageFile == [kind |-> "garbage", store |-> DefaultStore]

JsonFile(s) == [kind |-> "json", store |-> s]

ListFile(ids) == [kind |-> "list", store |-> [DefaultStore EXCEPT !.allowed_ids = ids]]

\* str.isdigit() of the decimal text of x: a sign is no digit
IsDigit(x) == x >= 0

\* [int(x) for x in s if str(x).isdigit()]
RECURSIVE Digits(_)
Digits(s) ==
    IF s = <<>> THEN <<>>
    ELSE IF IsDigit(Head(s)) THEN <<Head(s)>> \o Digits(Tail(s))
    ELSE Digits(Tail(s))

\* _load_store: a missing or unparseable file loads as the default store
LoadStore(f) ==
    IF f.kind = "json"
    THEN [allowed_ids |-> Digits(f.store.allowed_ids),
          roles |-> Digits(f.store.roles),
          channels |-> Digits(f.store.channels),
          isolated_users |-> Digits(f.store.isolated_users)]
    ELSE IF f.kind = "list"
    THEN [DefaultStore EXCEPT !.allowed_ids = Digits(f.store.allowed_ids)]
    ELSE DefaultStore

\* variant: the lists are dumped as they are
AsGiven(s) == s

\* variant: the isolated list is left out of the dump
DumpWithoutIsolated(s) ==
    [allowed_ids |-> SortedSeq(Range(s.allowed_ids)),
     roles |-> SortedSeq(Range(s.roles)),
     channels |-> SortedSeq(Range(s.channels)),
     isolated_users |-> <<>>]

\* the normalized dict _save_store dumps
Normalized(s) ==
    [allowed_ids |-> SortedSeq(Range(s.allowed_ids)),
     roles |-> SortedSeq(Range(s.roles)),
     channels |-> SortedSeq(Range(s.channels)),
     isolated_users |-> SortedSeq(Range(s.isolated_users))]

\* Outcomes of one _save_store: "saved"; "refused" by open() (file as before);
\* "cut" off after open(..., "w") truncated the file.
SaveStore(f, s, outcome) ==
    IF outcome = "saved" THEN JsonFile(Normalized(s))
    ELSE IF outcome = "refused" THEN f
    ELSE GarbageFile

\* variant: the store is dumped before the isolated list is reassigned
PersistStale(f, users, outcome) ==
    SaveStore(f, [allowed_ids |-> allowed_ids, roles |-> roles,
                  channels |-> channels, isolated_users |-> isolated_users], outcome)

\* _persist with the given isolated_users list
Persist(f, users, outcome) ==
    SaveStore(f, [allowed_ids |-> allowed_ids, roles |-> roles,
                  channels |-> channels, isolated_users |-> users], outcome)

\* ------------------------------------------------------------ permissions
IsGuildOwner(caller) == caller = GuildOwnerId

\* variant: the operator gate lets the guild owner through as well
IsAnyOwner(caller) == caller = AppOwnerId \/ caller = GuildOwnerId

\* _is_app_owner
IsAppOwner(caller) == caller = AppOwnerId

\* variant: the held roles are looked up in the isolation role list
PermissionByIsolationRole(caller) ==
    \/ InList(caller, allowed_ids)
    \/ \E r \in member_roles[caller] : InList(r, roles)

HasIsolationPermission(caller) ==
    \/ InList(caller, allowed_ids)
    \/ \E r \in member_roles[caller] : InList(r, allowed_ids)

Authorized(caller) == IsGuildOwner(caller) \/ HasIsolationPermission(caller)

\* member.top_role as a position; roles are ranked by their ID here
TopRole(m) == IF member_roles[m] = {} THEN EveryonePos ELSE Max(member_roles[m])

\* guild.get_role(rid) is not None
RoleExists(rid) == rid \in guild_roles

\* guild.get_channel(cid) is not None
ChannelExists(cid) == cid \in guild_channels

\* _get_isolation_role: first configured ID that resolves; 0 stands for None
RECURSIVE FirstExisting(_)
FirstExisting(s) ==
    IF s = <<>> THEN 0
    ELSE IF RoleExists(Head(s)) THEN Head(s)
    ELSE FirstExisting(Tail(s))

GetIsolationRole == FirstExisting(roles)

\* variant: a new snapshot is merged into the one already cached
CacheMergeRoles(cache, user, rs) ==
    [u \in DOMAIN cache \cup {user} |->
        IF u = user THEN (IF user \in DOMAIN cache THEN cache[user] \cup rs ELSE rs)
        ELSE cache[u]]

\* _cache_member_roles
CacheMemberRoles(cache, user, rs) ==
    [u \in DOMAIN cache \cup {user} |-> IF u = user THEN rs ELSE cache[u]]

\* _pop_cached_member_roles: the cache without the user's entry
PopCache(cache, user) == [u \in DOMAIN cache \ {user} |-> cache[u]]

HasSnapshot(cache, user) == user \in DOMAIN cache

\* the popped value; an absent entry and an empty list are both falsy
Cached(cache, user) == IF user \in DOMAIN cache THEN cache[user] ELSE {}

\* --------------------------------------------------------- remote calls
\* A handler run is given the set of its calls that are refused: <<"edit", m>>
\* member.edit(roles=...), <<"clear", c>> and <<"deny", c>> the two kinds of
\* channel.set_permissions, <<"dm", m>> member.send, <<"staff", 0>> the staff
\* channel send, <<"ban", m>> guild.ban, <<"save", 1>> a write refused at
\* open(), <<"save", 2>> a write cut off after the file was truncated.
RECURSIVE UpTo(_, _)
UpTo(S, k) ==
    IF k = 0 THEN {{}}
    ELSE LET P == UpTo(S, k - 1) IN P \cup {T \cup {x} : T \in P, x \in S}

Call(kind, arg, F) == [k |-> kind, a |-> arg, ok |-> <<kind, arg>> \notin F]

\* ctx.send(...): the reply to the caller
Reply == [k |-> "send", a |-> 0, ok |-> TRUE]

\* one channel.set_permissions(target, ...) per listed channel, in order
RECURSIVE PermissionCalls(_, _, _)
PermissionCalls(kind, s, F) ==
    IF s = <<>> THEN <<>>
    ELSE <<Call(kind, Head(s), F)>> \o PermissionCalls(kind, Tail(s), F)

\* variant: every attempted call is counted
Attempted(kind, S, F) == S

\* the channels of s whose call of this kind was accepted
Accepted(kind, S, F) == {c \in S : <<kind, c>> \notin F}

\* [cid for cid in s if channel resolves]
RECURSIVE Resolving(_)
Resolving(s) ==
    IF s = <<>> THEN <<>>
    ELSE IF ChannelExists(Head(s)) THEN <<Head(s)>> \o Resolving(Tail(s))
    ELSE Resolving(Tail(s))

SaveOutcome(F) ==
    IF <<"save", 1>> \in F THEN "refused"
    ELSE IF <<"save", 2>> \in F THEN "cut"
    ELSE "saved"

SaveSlots == {<<"save", 1>>, <<"save", 2>>}

\* ------------------------------------------------------- a second guild
\* The bot serves every guild it is in with the one cog object, so with the
\* one lists and the one file.  Of a second guild only what the handlers read
\* and write is kept: its banned users and the roles Subject holds there.
\* Before anything happened there nobody is banned and Subject has no role.
NoElsewhere == [banned |-> {}, roles |-> {}]

\* ------------------------------------------------------ overlapping runs
\* A handler run that is suspended at an await: where it is (pc), the remote
\* calls it still makes before its next synchronous block (todo), and its
\* locals can_manage_roles (cm), the role list of its pending edit (rs) and
\* roles_restored.
IdleTask ==
    [pc |-> "idle", todo |-> <<>>, cm |-> FALSE, rs |-> {}, restored |-> FALSE,
     reply |-> "none"]

\* no handler run is suspended; refused counts the remote calls refused to the
\* two runs, overlap whether one ran while the other was suspended
NoTasks == [iso |-> IdleTask, uni |-> IdleTask, refused |-> 0, overlap |-> FALSE]

\* --------------------------------------------------------- history record
NoOp ==
    [op |-> "idle", caller |-> 0, target |-> 0, reply |-> "none",
     pre |-> {}, was |-> FALSE, had |-> FALSE, snap |-> {},
     manage |-> FALSE, swapped |-> FALSE, restored |-> FALSE, editOk |-> FALSE,
     updated |-> 0, cleared |-> 0, refused |-> {}, raised |-> FALSE,
     follows |-> FALSE, orig |-> {}, arg |-> 0,
     errors |-> 0, clean |-> FALSE, rerun |-> FALSE, again |-> FALSE,
     track |-> FALSE, kept |-> {}, cut |-> FALSE, shed |-> {}, wiped |-> FALSE]

\* what a handler saw when it was called
Called(op, caller, target) ==
    [NoOp EXCEPT !.op = op, !.caller = caller, !.target = target,
                 !.track = lastOp.track, !.kept = lastOp.kept, !.cut = lastOp.cut,
                 !.shed = lastOp.shed, !.wiped = lastOp.wiped,
                 !.pre = member_roles[target],
                 !.was = InList(target, isolated_users),
                 !.had = HasSnapshot(isolation_cache, target),
                 !.snap = Cached(isolation_cache, target)]

\* A handler that only answers the caller and returns.
Reject(op, caller, target, reply) ==
    /\ calls' = <<Reply>>
    /\ lastOp' = [Called(op, caller, target) EXCEPT !.reply = reply]
    /\ UNCHANGED <<progVars, platVars, edits, tasks>>

\* ------------------------------------------------------------------ init
\* The stores the process may find on disk when it starts.
InitialStores ==
    {DefaultStore,
     [allowed_ids |-> <<HelperRole>>, roles |-> <<11>>, channels |-> <<21>>,
      isolated_users |-> <<>>],
     [allowed_ids |-> <<2>>, roles |-> <<19, 11>>, channels |-> <<21, 29>>,
      isolated_users |-> <<Subject>>],
     [allowed_ids |-> <<>>, roles |-> <<11>>, channels |-> <<>>,
      isolated_users |-> <<Subject, Leaver>>]}

InitialRoles(m) == IF m = 2 THEN {HelperRole} ELSE {}

Init ==
    /\ file \in {JsonFile(s) : s \in InitialStores}
    /\ allowed_ids = LoadStore(file).allowed_ids
    /\ roles = LoadStore(file).roles
    /\ channels = LoadStore(file).channels
    /\ isolated_users = LoadStore(file).isolated_users
    /\ isolation_cache = <<>>
    /\ \E rs \in SUBSET RoleIds :
          member_roles = [m \in Members |-> IF m = Subject THEN rs ELSE InitialRoles(m)]
    /\ overwrites \in [ChannelIds -> {"none", "deny"}]
    /\ manage_roles \in BOOLEAN
    /\ banned = {}
    /\ guild_roles = RoleIds
    /\ guild_channels = ChannelIds
    /\ role_ow = [c \in ChannelIds |-> "none"]
    /\ elsewhere = NoElsewhere
    /\ edits = 0
    /\ tasks = NoTasks
    /\ calls = <<>>
    /\ lastOp = NoOp

\* --------------------------------------------------------------- isolate
\* line 247: can_manage_roles
CanManageRoles(target) == manage_roles /\ BotTopRole > TopRole(target)

\* variant: a caller of equal rank passes the hierarchy check
HierarchyStrict(caller, target) ==
    TopRole(caller) < TopRole(target) /\ caller # GuildOwnerId

\* line 238: the hierarchy check
HierarchyViolation(caller, target) ==
    TopRole(caller) <= TopRole(target) /\ caller # GuildOwnerId

\* lines 269-272: the isolation channels that resolve
ClearTargets == Range(Resolving(channels))

\* variant: the deny-all fallback does not skip the isolation channels
DenyEverywhere == guild_channels

\* lines 294-296: the channels the deny-all fallback visits
DenyTargets == {c \in guild_channels : ~InList(c, channels)}

\* lines 304-305
AddIsolated(users, target) ==
    IF InList(target, users) THEN users ELSE Append(users, target)

\* the calls of a run of isolate that may be refused
IsolateSlots(target) ==
    (IF CanManageRoles(target) THEN {<<"edit", target>>} ELSE {})
    \cup {<<"clear", c>> : c \in ClearTargets}
    \cup {<<"deny", c>> : c \in DenyTargets}
    \cup (IF InList(target, isolated_users) THEN {} ELSE SaveSlots)
    \cup {<<"dm", target>>, <<"dm", GuildOwnerId>>}
    \cup (IF StaffChannelPresent THEN {<<"staff", 0>>} ELSE {})

\* lines 259-264: the role swap was tried and accepted
Swapped(target, F) == CanManageRoles(target) /\ <<"edit", target>> \notin F

\* variant: the deny-all fallback runs whether or not the roles were swapped
DenyAlways(target, F) == TRUE

\* line 280: the deny-all fallback runs when the roles were not swapped
DenyApplies(target, F) == ~Swapped(target, F)

IsolateRun(caller, target, F) ==
    LET iso == GetIsolationRole
        canManage == CanManageRoles(target)
        swapped == Swapped(target, F)
        denying == DenyApplies(target, F)
        denied == IF denying THEN Accepted("deny", DenyTargets, F) ELSE {}
        cleared == Accepted("clear", ClearTargets, F)
        editCalls == IF canManage THEN <<Call("edit", target, F)>> ELSE <<>>
        clearCalls == PermissionCalls("clear", Resolving(channels), F)
        denyCalls == IF denying THEN PermissionCalls("deny", SortedSeq(DenyTargets), F)
                     ELSE <<>>
        users == AddIsolated(isolated_users, target)
        raised == <<"staff", 0>> \in F
        notifyCalls == <<Call("dm", target, F), Call("dm", GuildOwnerId, F)>>
                       \o (IF StaffChannelPresent THEN <<Call("staff", 0, F)>> ELSE <<>>)
    IN  /\ swapped => \A c \in DenyTargets : <<"deny", c>> \notin F
        /\ ~(SaveSlots \subseteq F)
        /\ isolation_cache' = CacheMemberRoles(isolation_cache, target, member_roles[target])
        /\ member_roles' = IF swapped THEN [member_roles EXCEPT ![target] = {iso}]
                           ELSE member_roles
        /\ overwrites' = [c \in ChannelIds |->
                            IF c \in denied THEN "deny"
                            ELSE IF c \in cleared THEN "none"
                            ELSE overwrites[c]]
        /\ isolated_users' = users
        /\ file' = IF users = isolated_users THEN file
                   ELSE Persist(file, users, SaveOutcome(F))
        /\ calls' = editCalls \o clearCalls \o denyCalls \o notifyCalls
                    \o (IF raised THEN <<>> ELSE <<Reply>>)
        /\ lastOp' = [Called("isolate", caller, target) EXCEPT
                         !.reply = IF raised THEN "raised" ELSE "isolated",
                         !.manage = canManage, !.swapped = swapped,
                         !.updated = Cardinality(denied),
                         !.refused = F, !.raised = raised,
                         !.kept = IF /\ lastOp.track /\ users # isolated_users
                                     /\ SaveOutcome(F) = "saved"
                                  THEN lastOp.kept \cup {target} ELSE lastOp.kept,
                         !.shed = IF ~lastOp.track THEN {}
                                  ELSE IF InList(target, isolated_users) THEN lastOp.shed
                                  ELSE IF swapped THEN member_roles[target]
                                  ELSE {},
                         !.wiped = FALSE]
        /\ UNCHANGED <<allowed_ids, roles, channels, manage_roles, banned, guildVars,
                       edits, tasks>>

Isolate(caller, target) ==
    IF ~Authorized(caller) THEN Reject("isolate", caller, target, "no_permission")
    ELSE IF target = caller THEN Reject("isolate", caller, target, "self")
    ELSE IF HierarchyViolation(caller, target)
         THEN Reject("isolate", caller, target, "hierarchy")
    ELSE IF GetIsolationRole = 0 THEN Reject("isolate", caller, target, "no_role")
    ELSE \E F \in UpTo(IsolateSlots(target), MaxFailures) : IsolateRun(caller, target, F)

\* ------------------------------------------------------------- unisolate
\* line 352: the bot cannot manage the target
CannotManage(target) == BotTopRole <= TopRole(target) \/ ~manage_roles

\* variant: the rank comparison of the filter is the wrong way round
RolesAboveBot(cached) == {r \in cached : RoleExists(r) /\ BotTopRole <= r}

\* variant: the snapshot is applied as it was taken
CachedRoles(cached) == cached

\* lines 371-379: cached roles that still exist and rank below the bot
RolesToApply(cached) == {r \in cached : RoleExists(r) /\ ~(BotTopRole <= r)}

\* variant: the fallback strips every role
FallbackNoRoles(target, iso) == {}

\* line 400: the target's roles without the isolation role
FallbackRoles(target, iso) == member_roles[target] \ {iso}

\* lines 414-416
RemoveIsolated(users, target) ==
    IF InList(target, users) THEN Without(users, target) ELSE users

\* variant: a cache hit is trusted without the isolated flag
IsolatedOrCached(target) ==
    InList(target, isolated_users) \/ HasSnapshot(isolation_cache, target)

\* line 362: the target is flagged as isolated
IsIsolated(target) == InList(target, isolated_users)

\* this unisolate directly follows an isolate of the same target, in the
\* same process, whose role swap was accepted
Follows(target) == lastOp.follows /\ lastOp.target = target

\* the calls of a run of unisolate that may be refused
UnisolateSlots(target) ==
    {<<"edit", target>>}
    \cup {<<"clear", c>> : c \in guild_channels}
    \cup SaveSlots
    \cup (IF StaffChannelPresent THEN {<<"staff", 0>>} ELSE {})

\* lines 385-390: what unisolate does when the replace call is refused
RestoreRefused(caller, target) ==
    /\ isolation_cache' = PopCache(isolation_cache, target)
    /\ calls' = <<Call("edit", target, {<<"edit", target>>}), Reply>>
    /\ lastOp' = [Called("unisolate", caller, target) EXCEPT
                     !.reply = "restore_failed",
                     !.refused = {<<"edit", target>>},
                     !.follows = Follows(target),
                     !.orig = IF Follows(target) THEN lastOp.orig ELSE {}]
    /\ UNCHANGED <<allowed_ids, roles, channels, isolated_users, file, platVars, edits, tasks>>

UnisolateRun(caller, target, F) ==
    LET iso == GetIsolationRole
        cached == Cached(isolation_cache, target)
        toApply == RolesToApply(cached)
        primary == cached # {} /\ toApply # {}
        editOk == <<"edit", target>> \notin F
        cleared == Accepted("clear", guild_channels, F)
        warnCalls == IF primary THEN <<>> ELSE <<Reply>>
        editCalls == <<Call("edit", target, F)>>
                     \o (IF editOk THEN <<>> ELSE <<Reply>>)
        clearCalls == PermissionCalls("clear", SortedSeq(guild_channels), F)
        users == RemoveIsolated(isolated_users, target)
        raised == <<"staff", 0>> \in F
        staffCalls == IF StaffChannelPresent THEN <<Call("staff", 0, F)>> ELSE <<>>
    IN  /\ ~(SaveSlots \subseteq F)
        /\ isolation_cache' = PopCache(isolation_cache, target)
        /\ member_roles' =
              IF ~editOk THEN member_roles
              ELSE IF primary THEN [member_roles EXCEPT ![target] = toApply]
              ELSE [member_roles EXCEPT ![target] = FallbackRoles(target, iso)]
        /\ overwrites' = [c \in ChannelIds |-> IF c \in cleared THEN "none" ELSE overwrites[c]]
        /\ isolated_users' = users
        /\ file' = Persist(file, users, SaveOutcome(F))
        /\ calls' = warnCalls \o editCalls \o clearCalls \o staffCalls
                    \o (IF raised THEN <<>> ELSE <<Reply>>)
        /\ lastOp' = [Called("unisolate", caller, target) EXCEPT
                         !.reply = IF raised THEN "raised" ELSE "restored",
                         !.restored = primary, !.editOk = editOk,
                         !.cleared = Cardinality(cleared),
                         !.refused = F, !.raised = raised,
                         !.follows = Follows(target),
                         !.orig = IF Follows(target) THEN lastOp.orig ELSE {},
                         !.kept = lastOp.kept \ {target}]
        /\ UNCHANGED <<allowed_ids, roles, channels, manage_roles, banned, guildVars,
                       edits, tasks>>

Unisolate(caller, target) ==
    IF ~Authorized(caller) THEN Reject("unisolate", caller, target, "no_permission")
    ELSE IF CannotManage(target) THEN Reject("unisolate", caller, target, "cannot_manage")
    ELSE IF GetIsolationRole = 0 THEN Reject("unisolate", caller, target, "no_role")
    ELSE IF ~IsIsolated(target)
         THEN Reject("unisolate", caller, target, "not_isolated")
    ELSE \E F \in UpTo(UnisolateSlots(target), MaxFailures) :
            IF RolesToApply(Cached(isolation_cache, target)) # {} /\ <<"edit", target>> \in F
            THEN F = {<<"edit", target>>} /\ RestoreRefused(caller, target)
            ELSE UnisolateRun(caller, target, F)

\* -------------------------------------------------------- on_member_join
JoinSlots(member) ==
    {<<"ban", member>>} \cup (IF StaffChannelPresent THEN {<<"staff", 0>>} ELSE {})

\* variant: the membership test of the listener is negated
NotFlagged(member) == ~InList(member, isolated_users)

\* line 150: the member is flagged as isolated
Flagged(member) == InList(member, isolated_users)

\* variant: the staff notice is posted before the ban
NoticeThenBan(member, F) ==
    (IF StaffChannelPresent THEN <<Call("staff", 0, F)>> ELSE <<>>)
    \o <<Call("ban", member, F)>>

\* lines 153-159: the ban, then the staff notice unless the ban raised
JoinCalls(member, F) ==
    <<Call("ban", member, F)>>
    \o (IF <<"ban", member>> \notin F /\ StaffChannelPresent
        THEN <<Call("staff", 0, F)>> ELSE <<>>)

OnMemberJoin(member) ==
    IF ~Flagged(member)
    THEN /\ calls' = <<>>
         /\ lastOp' = [Called("join", 0, member) EXCEPT !.reply = "ignored"]
         /\ UNCHANGED <<progVars, platVars, edits, tasks>>
    ELSE \E F \in UpTo(JoinSlots(member), MaxFailures) :
         LET banOk == <<"ban", member>> \notin F
         IN  /\ ~banOk => F = {<<"ban", member>>}
             /\ calls' = JoinCalls(member, F)
             /\ banned' = IF banOk THEN banned \cup {member} ELSE banned
             /\ member_roles' = IF banOk THEN [member_roles EXCEPT ![member] = {}]
                                ELSE member_roles
             /\ lastOp' = [Called("join", 0, member) EXCEPT
                              !.reply = IF banOk THEN "banned" ELSE "ban_refused",
                              !.refused = F]
             /\ UNCHANGED <<progVars, overwrites, manage_roles, guildVars, edits, tasks>>

\* --------------------------------------------------- isolation clearcache
\* variant: clearcache empties the isolated list with the cache
ClearCacheAndList(caller) ==
    IF ~IsGuildOwner(caller) THEN Reject("clearcache", caller, caller, "owner_only")
    ELSE /\ isolation_cache' = <<>>
         /\ isolated_users' = <<>>
         /\ calls' = <<Reply>>
         /\ lastOp' = [Called("clearcache", caller, caller) EXCEPT
                          !.reply = "cleared", !.wiped = lastOp.shed # {}]
         /\ UNCHANGED <<allowed_ids, roles, channels, file, platVars, edits, tasks>>

ClearCache(caller) ==
    IF ~IsGuildOwner(caller) THEN Reject("clearcache", caller, caller, "owner_only")
    ELSE /\ isolation_cache' = <<>>
         /\ calls' = <<Reply>>
         /\ lastOp' = [Called("clearcache", caller, caller) EXCEPT
                          !.reply = "cleared", !.wiped = lastOp.shed # {}]
         /\ UNCHANGED <<allowed_ids, roles, channels, isolated_users, file, platVars, edits, tasks>>

\* ------------------------------------------------------ isolation cleanup
\* [x for x in s if x not in S]
RECURSIVE WithoutAll(_, _)
WithoutAll(s, S) ==
    IF s = <<>> THEN <<>>
    ELSE IF Head(s) \in S THEN WithoutAll(Tail(s), S)
    ELSE <<Head(s)>> \o WithoutAll(Tail(s), S)

\* lines 695-702: the banned IDs the handler works with; a fetch that raises
\* leaves the set empty
BannedIds(F) == IF <<"bans", 0>> \in F THEN {} ELSE banned

CleanupSlots == {<<"bans", 0>>} \cup SaveSlots

Cleanup(caller) ==
    IF ~IsAppOwner(caller) THEN Reject("cleanup", caller, caller, "operator_only")
    ELSE \E F \in UpTo(CleanupSlots, MaxFailures) :
         LET after == WithoutAll(isolated_users, BannedIds(F))
             removed == Cardinality(Range(isolated_users)) - Cardinality(Range(after))
         IN  /\ ~(SaveSlots \subseteq F)
             /\ isolated_users' = after
             /\ file' = Persist(file, after, SaveOutcome(F))
             /\ calls' = <<Call("bans", 0, F), Reply>>
             /\ lastOp' = [Called("cleanup", caller, caller) EXCEPT
                              !.reply = "cleaned", !.updated = removed,
                              !.refused = F, !.kept = lastOp.kept \cap Range(after)]
             /\ UNCHANGED <<allowed_ids, roles, channels, isolation_cache, platVars,
                            edits, tasks>>

\* ----------------------------------------------------------- list commands
\* the four lists as _persist hands them to _save_store
Store ==
    [allowed_ids |-> allowed_ids, roles |-> roles, channels |-> channels,
     isolated_users |-> isolated_users]

\* The tail the list commands share: the list is reassigned, _persist() writes
\* the store and the caller is answered.
Commit(op, caller, arg, cfg, reply) ==
    \E F \in UpTo(SaveSlots, MaxFailures) :
       /\ ~(SaveSlots \subseteq F)
       /\ edits < MaxEdits
       /\ edits' = edits + 1
       /\ UNCHANGED tasks
       /\ allowed_ids' = cfg.allowed_ids
       /\ roles' = cfg.roles
       /\ channels' = cfg.channels
       /\ file' = SaveStore(file, cfg, SaveOutcome(F))
       /\ calls' = <<Reply>>
       /\ lastOp' = [Called(op, caller, caller) EXCEPT
                        !.arg = arg, !.reply = reply, !.refused = F]
       /\ UNCHANGED <<isolated_users, isolation_cache, platVars>>

\* A list command that only answers the caller.
Answer(op, caller, arg, reply) ==
    /\ calls' = <<Reply>>
    /\ lastOp' = [Called(op, caller, caller) EXCEPT !.arg = arg, !.reply = reply]
    /\ UNCHANGED <<progVars, platVars, edits, tasks>>

\* the values the action word and the ID argument are drawn from
ActionWords == {"add", "remove", "list"}

IdArgs == {AppOwnerId, HelperRole, -1}

\* .isoperm <action> <id>
Isoperm(caller, action, id) ==
    IF ~IsAppOwner(caller) THEN Answer("isoperm", caller, id, "operator_only")
    ELSE IF ~IsDigit(id) THEN Answer("isoperm", caller, id, "not_numeric")
    ELSE IF action = "add" THEN
         IF InList(id, allowed_ids) THEN Answer("isoperm", caller, id, "already")
         ELSE Commit("isoperm", caller, id,
                     [Store EXCEPT !.allowed_ids = Append(allowed_ids, id)], "added")
    ELSE IF action = "remove" THEN
         IF ~InList(id, allowed_ids) THEN Answer("isoperm", caller, id, "absent")
         ELSE Commit("isoperm", caller, id,
                     [Store EXCEPT !.allowed_ids = Without(allowed_ids, id)], "removed")
    ELSE Answer("isoperm", caller, id, "unknown_action")

\* the argument of a role or channel command that names nothing
Nothing == 0

\* .isolation role add <role>
RoleAdd(caller, role) ==
    IF ~IsAppOwner(caller) THEN Answer("role_add", caller, role, "operator_only")
    ELSE IF role = Nothing THEN Answer("role_add", caller, role, "usage")
    ELSE IF InList(role, roles) THEN Answer("role_add", caller, role, "already")
    ELSE Commit("role_add", caller, role,
                [Store EXCEPT !.roles = Append(roles, role)], "added")

\* .isolation role remove <role>
RoleRemove(caller, role) ==
    IF ~IsAppOwner(caller) THEN Answer("role_remove", caller, role, "operator_only")
    ELSE IF role = Nothing THEN Answer("role_remove", caller, role, "usage")
    ELSE IF ~InList(role, roles) THEN Answer("role_remove", caller, role, "absent")
    ELSE Commit("role_remove", caller, role,
                [Store EXCEPT !.roles = Without(roles, role)], "removed")

\* .isolation channel add <channel>
ChannelAdd(caller, channel) ==
    IF ~IsAppOwner(caller) THEN Answer("channel_add", caller, channel, "operator_only")
    ELSE IF channel = Nothing THEN Answer("channel_add", caller, channel, "usage")
    ELSE IF InList(channel, channels)
         THEN Answer("channel_add", caller, channel, "already")
    ELSE Commit("channel_add", caller, channel,
                [Store EXCEPT !.channels = Append(channels, channel)], "added")

\* .isolation channel remove <channel>
ChannelRemove(caller, channel) ==
    IF ~IsAppOwner(caller)
    THEN Answer("channel_remove", caller, channel, "operator_only")
    ELSE IF channel = Nothing THEN Answer("channel_remove", caller, channel, "usage")
    ELSE IF ~InList(channel, channels)
         THEN Answer("channel_remove", caller, channel, "absent")
    ELSE Commit("channel_remove", caller, channel,
                [Store EXCEPT !.channels = Without(channels, channel)], "removed")

\* ---------------------------------------------------------- isolation setup
\* the role that carries the name the command is given; a created role gets
\* this ID
SetupRole == 11

\* the text channel named "isolation" (or "quarantine"); a created channel
\* gets this ID
IsoChannel == 21

\* The setup role's overwrite in a channel: "none"; "allow", the template of
\* the private channel; "deny", the deny-all template; "deny_hist", the
\* deny-all template merged into "allow" (read_message_history stays allowed).
DenyAll == {"deny", "deny_hist"}

\* variant: every channel is rewritten
AlwaysUpdate(ow) == TRUE

\* lines 622-627: needs_update
NeedsUpdate(ow) == ow \notin DenyAll

\* lines 624-626: the deny-all attributes set on the current overwrite
Merged(ow) == IF ow \in {"allow", "deny_hist"} THEN "deny_hist" ELSE "deny"

\* the outcome of the second _persist of one run
LaterSaveSlots == {<<"save", 3>>, <<"save", 4>>}

LaterSaveOutcome(F) ==
    IF <<"save", 3>> \in F THEN "refused"
    ELSE IF <<"save", 4>> \in F THEN "cut"
    ELSE "saved"

\* the channels the deny pass has to rewrite
Stale == {c \in guild_channels : NeedsUpdate(role_ow[c])}

\* the calls of one run that can be refused
SetupSlots ==
    (IF RoleExists(SetupRole) THEN {} ELSE {<<"mkrole", 0>>})
    \cup (IF InList(SetupRole, roles) THEN {} ELSE SaveSlots)
    \cup {<<"roledeny", c>> : c \in Stale}
    \cup (IF ChannelExists(IsoChannel) THEN {<<"chedit", IsoChannel>>}
          ELSE {<<"mkchan", 0>>})
    \cup (IF InList(IsoChannel, channels) THEN {} ELSE LaterSaveSlots)

\* lines 584-593: create_role is refused, the handler answers and returns
SetupNoRole(caller, F) ==
    /\ calls' = <<Call("mkrole", 0, F), Reply>>
    /\ lastOp' = [Called("setup", caller, caller) EXCEPT
                     !.reply = "role_failed", !.refused = F,
                     !.again = lastOp.rerun]
    /\ UNCHANGED <<progVars, platVars>>

\* lines 595-677
SetupRun(caller, F) ==
    LET made == ~RoleExists(SetupRole)
        addRole == ~InList(SetupRole, roles)
        roles1 == IF addRole THEN Append(roles, SetupRole) ELSE roles
        cfg1 == [Store EXCEPT !.roles = roles1]
        file1 == IF addRole THEN SaveStore(file, cfg1, SaveOutcome(F)) ELSE file
        done == {c \in Stale : <<"roledeny", c>> \notin F}
        exists == ChannelExists(IsoChannel)
        shape == IF exists THEN Call("chedit", IsoChannel, F) ELSE Call("mkchan", 0, F)
        ready == shape.ok
        addChannel == ready /\ ~InList(IsoChannel, channels)
        channels1 == IF addChannel THEN Append(channels, IsoChannel) ELSE channels
        cfg2 == [cfg1 EXCEPT !.channels = channels1]
    IN  /\ ~ready => F \cap LaterSaveSlots = {}
        /\ roles' = roles1
        /\ channels' = channels1
        /\ file' = IF addChannel THEN SaveStore(file1, cfg2, LaterSaveOutcome(F))
                   ELSE file1
        /\ guild_roles' = guild_roles \cup {SetupRole}
        /\ guild_channels' = IF ready THEN guild_channels \cup {IsoChannel}
                             ELSE guild_channels
        /\ UNCHANGED elsewhere
        /\ role_ow' = [c \in DOMAIN role_ow |->
                          IF c = IsoChannel /\ ready THEN "allow"
                          ELSE IF c \in done THEN Merged(role_ow[c])
                          ELSE role_ow[c]]
        /\ overwrites' = IF ready THEN [overwrites EXCEPT ![IsoChannel] = "none"]
                         ELSE overwrites
        /\ calls' = (IF made THEN <<Call("mkrole", 0, F)>> ELSE <<>>)
                    \o <<Reply>>
                    \o PermissionCalls("roledeny", SortedSeq(Stale), F)
                    \o <<Reply, shape, Reply>>
        /\ lastOp' = [Called("setup", caller, caller) EXCEPT
                         !.reply = IF ready THEN "ready" ELSE "channel_failed",
                         !.updated = Cardinality(done),
                         !.errors = Cardinality(Stale \ done),
                         !.refused = F, !.clean = F = {},
                         !.again = lastOp.rerun]
        /\ UNCHANGED <<allowed_ids, isolated_users, isolation_cache, member_roles,
                       manage_roles, banned>>

\* .isolation setup
Setup(caller) ==
    IF ~IsAppOwner(caller) THEN Reject("setup", caller, caller, "operator_only")
    ELSE \E F \in UpTo(SetupSlots, MaxFailures) :
         /\ ~(SaveSlots \subseteq F)
         /\ ~(LaterSaveSlots \subseteq F)
         /\ edits < MaxEdits
         /\ edits' = edits + 1
         /\ UNCHANGED tasks
         /\ IF <<"mkrole", 0>> \in F THEN F = {<<"mkrole", 0>>} /\ SetupNoRole(caller, F)
            ELSE SetupRun(caller, F)

\* ------------------------------------------------------------ environment
\* A moderator lifts the ban of a user, who is back in the guild (with no role).
Unban(member) ==
    /\ member \in banned
    /\ banned' = banned \ {member}
    /\ UNCHANGED <<progVars, member_roles, overwrites, manage_roles, guildVars,
                   edits, tasks, calls, lastOp>>

\* ------------------------------------------------ process restart (__init__)
\* variant: the role cache outlives the process
RestartKeepingCache ==
    /\ allowed_ids' = LoadStore(file).allowed_ids
    /\ roles' = LoadStore(file).roles
    /\ channels' = LoadStore(file).channels
    /\ isolated_users' = LoadStore(file).isolated_users
    /\ calls' = <<>>
    /\ lastOp' = [NoOp EXCEPT !.op = "restart", !.track = lastOp.track,
                              !.kept = lastOp.kept, !.cut = lastOp.cut,
                              !.shed = lastOp.shed, !.wiped = lastOp.shed # {}]
    /\ UNCHANGED <<isolation_cache, file, platVars, edits, tasks>>

Restart ==
    /\ allowed_ids' = LoadStore(file).allowed_ids
    /\ roles' = LoadStore(file).roles
    /\ channels' = LoadStore(file).channels
    /\ isolated_users' = LoadStore(file).isolated_users
    /\ isolation_cache' = <<>>
    /\ calls' = <<>>
    /\ lastOp' = [NoOp EXCEPT !.op = "restart", !.track = lastOp.track,
                              !.kept = lastOp.kept, !.cut = lastOp.cut,
                              !.shed = lastOp.shed, !.wiped = lastOp.shed # {}]
    /\ UNCHANGED <<file, platVars, edits, tasks>>

\* ------------------------------------------------------------------ next
\* The event loop runs one handler at a time (Main.py, bot.run): when a
\* handler has returned, the loop is idle again.  The idle record keeps only
\* whether the handler was an isolate whose role swap was accepted, with the
\* roles it replaced, and whether it was a setup run in which nothing was
\* refused.  In behaviours that start with the track flag set it also keeps
\* the members whose isolate wrote the file and who were not taken off the
\* list since by unisolate or cleanup, whether a write was cut off, the roles
\* that the role swap of the isolate of a member not yet listed replaced
\* (until a run of unisolate completes), and whether the cache was emptied by
\* a restart or by clearcache since.
Idle == lastOp.op = "idle"

\* the handler that returns was a run of unisolate that took its target off
\* the list
Unlisted ==
    /\ lastOp.op \in {"unisolate", "unisolate_elsewhere"}
    /\ lastOp.reply \in {"restored", "raised"}

Return ==
    /\ ~Idle
    /\ lastOp' = [NoOp EXCEPT
                     !.target = IF lastOp.op = "isolate" /\ lastOp.swapped
                                THEN lastOp.target ELSE 0,
                     !.follows = lastOp.op = "isolate" /\ lastOp.swapped,
                     !.orig = IF lastOp.op = "isolate" /\ lastOp.swapped
                              THEN lastOp.pre ELSE {},
                     !.rerun = lastOp.op = "setup" /\ lastOp.clean,
                     !.track = lastOp.track, !.kept = lastOp.kept,
                     !.cut = lastOp.track /\ (lastOp.cut \/ file.kind = "garbage"),
                     !.shed = IF Unlisted THEN {} ELSE lastOp.shed,
                     !.wiped = ~Unlisted /\ lastOp.wiped]
    /\ calls' = <<>>
    /\ UNCHANGED <<progVars, platVars, edits, tasks>>

\* the (caller, target) pairs the commands are invoked with
Targets(caller) == {caller, Subject}

\* members of the guild: a banned user is no member
Present == Members \ banned

Next ==
    \/ Idle /\ \E caller \in Present : \E target \in Targets(caller) \cap Present :
                  Isolate(caller, target)
    \/ Idle /\ \E caller \in Present : \E target \in Targets(caller) \cap Present :
                  Unisolate(caller, target)
    \/ Idle /\ \E member \in Present : OnMemberJoin(member)
    \/ Idle /\ \E caller \in Present : ClearCache(caller)
    \/ Idle /\ \E caller \in Present : Cleanup(caller)
    \/ Idle /\ \E member \in Members : Unban(member)
    \/ Idle /\ Restart
    \/ Return

Spec == Init /\ [][Next]_vars

\* ------------------------------------------------- isolation and restarts
\* One store and one server: the operator and role 12 are allowed, the
\* isolation role and the private channel are set up, nobody is isolated.
SurvivalInit ==
    /\ file = JsonFile([allowed_ids |-> <<AppOwnerId, HelperRole>>, roles |-> <<11>>,
                        channels |-> <<21>>, isolated_users |-> <<>>])
    /\ allowed_ids = LoadStore(file).allowed_ids
    /\ roles = LoadStore(file).roles
    /\ channels = LoadStore(file).channels
    /\ isolated_users = LoadStore(file).isolated_users
    /\ isolation_cache = <<>>
    /\ \E rs \in {{}, {12}} :
          member_roles = [m \in Members |-> IF m = Subject THEN rs ELSE InitialRoles(m)]
    /\ overwrites = [c \in ChannelIds |-> "none"]
    /\ manage_roles \in BOOLEAN
    /\ banned = {}
    /\ guild_roles = RoleIds
    /\ guild_channels = ChannelIds
    /\ role_ow = [c \in ChannelIds |-> "none"]
    /\ elsewhere = NoElsewhere
    /\ edits = 0
    /\ tasks = NoTasks
    /\ calls = <<>>
    /\ lastOp = [NoOp EXCEPT !.track = TRUE]

SurvivalSpec == SurvivalInit /\ [][Next]_vars

\* ------------------------------------------ handlers in the second guild
\* The second guild has its own owner, two roles (its isolation role and one
\* more, both below the bot's role there) and one channel.  Role and channel
\* IDs are unique over all guilds.
OtherOwnerId == AppOwnerId

OtherIsolationRole == 31

OtherGuildRoles == {31, 32}

OtherBotTopRole == 33

OtherGuildChannels == {41}

\* member.roles in the second guild
OtherRoles(m) == IF m = Subject THEN elsewhere.roles ELSE {}

\* members of the second guild
OtherPresent == Members \ elsewhere.banned

\* _get_isolation_role(guild) for the second guild
RECURSIVE FirstAmong(_, _)
FirstAmong(s, S) ==
    IF s = <<>> THEN 0
    ELSE IF Head(s) \in S THEN Head(s)
    ELSE FirstAmong(Tail(s), S)

\* lines 87 and 107-113 with ctx.guild the second guild
AuthorizedElsewhere(caller) ==
    \/ caller = OtherOwnerId
    \/ InList(caller, allowed_ids)
    \/ \E r \in OtherRoles(caller) : InList(r, allowed_ids)

\* line 351 with guild the second guild, where the bot may manage roles
CannotManageElsewhere(target) ==
    OtherRoles(target) # {} /\ OtherBotTopRole <= Max(OtherRoles(target))

\* on_member_join for a member who joins the second guild
JoinElsewhere(member) ==
    IF ~Flagged(member)
    THEN /\ calls' = <<>>
         /\ lastOp' = [Called("join_elsewhere", 0, member) EXCEPT !.reply = "ignored"]
         /\ UNCHANGED <<progVars, platVars, edits, tasks>>
    ELSE \E F \in UpTo(JoinSlots(member), MaxFailures) :
         LET banOk == <<"ban", member>> \notin F
         IN  /\ ~banOk => F = {<<"ban", member>>}
             /\ calls' = JoinCalls(member, F)
             /\ elsewhere' = IF banOk
                             THEN [banned |-> elsewhere.banned \cup {member},
                                   roles |-> IF member = Subject THEN {}
                                             ELSE elsewhere.roles]
                             ELSE elsewhere
             /\ lastOp' = [Called("join_elsewhere", 0, member) EXCEPT
                              !.reply = IF banOk THEN "banned" ELSE "ban_refused",
                              !.refused = F]
             /\ UNCHANGED <<progVars, member_roles, overwrites, manage_roles, banned,
                            guild_roles, guild_channels, role_ow, edits, tasks>>

\* the calls of a run of unisolate in the second guild that may be refused
UnisolateElsewhereSlots(target) ==
    {<<"edit", target>>}
    \cup {<<"clear", c>> : c \in OtherGuildChannels}
    \cup SaveSlots
    \cup (IF StaffChannelPresent THEN {<<"staff", 0>>} ELSE {})

\* unisolate called in the second guild: the cache has no entry under that
\* guild's ID, so the run warns and takes the fallback
UnisolateElsewhere(caller, target) ==
    IF ~AuthorizedElsewhere(caller)
    THEN Reject("unisolate_elsewhere", caller, target, "no_permission")
    ELSE IF CannotManageElsewhere(target)
         THEN Reject("unisolate_elsewhere", caller, target, "cannot_manage")
    ELSE IF FirstAmong(roles, OtherGuildRoles) = 0
         THEN Reject("unisolate_elsewhere", caller, target, "no_role")
    ELSE IF ~IsIsolated(target)
         THEN Reject("unisolate_elsewhere", caller, target, "not_isolated")
    ELSE \E F \in UpTo(UnisolateElsewhereSlots(target), MaxFailures) :
         LET iso == FirstAmong(roles, OtherGuildRoles)
             editOk == <<"edit", target>> \notin F
             cleared == Accepted("clear", OtherGuildChannels, F)
             users == RemoveIsolated(isolated_users, target)
             raised == <<"staff", 0>> \in F
         IN  /\ ~(SaveSlots \subseteq F)
             /\ elsewhere' = IF editOk /\ target = Subject
                             THEN [elsewhere EXCEPT !.roles = @ \ {iso}]
                             ELSE elsewhere
             /\ isolated_users' = users
             /\ file' = Persist(file, users, SaveOutcome(F))
             /\ calls' = <<Reply, Call("edit", target, F)>>
                         \o (IF editOk THEN <<>> ELSE <<Reply>>)
                         \o PermissionCalls("clear", SortedSeq(OtherGuildChannels), F)
                         \o (IF StaffChannelPresent THEN <<Call("staff", 0, F)>>
                             ELSE <<>>)
                         \o (IF raised THEN <<>> ELSE <<Reply>>)
             /\ lastOp' = [Called("unisolate_elsewhere", caller, target) EXCEPT
                              !.reply = IF raised THEN "raised" ELSE "restored",
                              !.editOk = editOk, !.cleared = Cardinality(cleared),
                              !.refused = F, !.raised = raised,
                              !.kept = lastOp.kept \ {target}]
             /\ UNCHANGED <<allowed_ids, roles, channels, isolation_cache,
                            member_roles, overwrites, manage_roles, banned,
                            guild_roles, guild_channels, role_ow, edits, tasks>>

\* lines 695-702 with guild the second guild
BannedIdsElsewhere(F) == IF <<"bans", 0>> \in F THEN {} ELSE elsewhere.banned

\* isolation cleanup called in the second guild
CleanupElsewhere(caller) ==
    IF ~IsAppOwner(caller)
    THEN Reject("cleanup_elsewhere", caller, caller, "operator_only")
    ELSE \E F \in UpTo(CleanupSlots, MaxFailures) :
         LET after == WithoutAll(isolated_users, BannedIdsElsewhere(F))
             removed == Cardinality(Range(isolated_users)) - Cardinality(Range(after))
         IN  /\ ~(SaveSlots \subseteq F)
             /\ isolated_users' = after
             /\ file' = Persist(file, after, SaveOutcome(F))
             /\ calls' = <<Call("bans", 0, F), Reply>>
             /\ lastOp' = [Called("cleanup_elsewhere", caller, caller) EXCEPT
                              !.reply = "cleaned", !.updated = removed,
                              !.refused = F, !.kept = lastOp.kept \cap Range(after)]
             /\ UNCHANGED <<allowed_ids, roles, channels, isolation_cache, platVars,
                            edits, tasks>>

\* The bot in two guilds: the store lists the isolation role of each, the
\* operator is allowed, nobody is isolated yet.
GuildsInit ==
    /\ file = JsonFile([allowed_ids |-> <<AppOwnerId>>,
                        roles |-> <<11, OtherIsolationRole>>,
                        channels |-> <<21>>, isolated_users |-> <<>>])
    /\ allowed_ids = LoadStore(file).allowed_ids
    /\ roles = LoadStore(file).roles
    /\ channels = LoadStore(file).channels
    /\ isolated_users = LoadStore(file).isolated_users
    /\ isolation_cache = <<>>
    /\ \E rs \in {{}, {12}} :
          member_roles = [m \in Members |-> IF m = Subject THEN rs ELSE InitialRoles(m)]
    /\ overwrites = [c \in ChannelIds |-> "none"]
    /\ manage_roles = TRUE
    /\ banned = {}
    /\ guild_roles = RoleIds
    /\ guild_channels = ChannelIds
    /\ role_ow = [c \in ChannelIds |-> "none"]
    /\ elsewhere \in {[NoElsewhere EXCEPT !.roles = rs] : rs \in {{}, {32}}}
    /\ edits = 0
    /\ tasks = NoTasks
    /\ calls = <<>>
    /\ lastOp = NoOp

GuildsNext ==
    \/ Next
    \/ Idle /\ \E member \in OtherPresent : JoinElsewhere(member)
    \/ Idle /\ \E caller \in OtherPresent : \E target \in Targets(caller) \cap OtherPresent :
                  UnisolateElsewhere(caller, target)
    \/ Idle /\ \E caller \in OtherPresent : CleanupElsewhere(caller)

GuildsSpec == GuildsInit /\ [][GuildsNext]_vars

\* ------------------------------------------------ roles change meanwhile
\* The guild's moderators delete a role (its holders lose it) or take a role
\* from Subject, between the commands.
RoleDeleted(r) ==
    /\ r \in guild_roles
    /\ guild_roles' = guild_roles \ {r}
    /\ member_roles' = [m \in Members |-> member_roles[m] \ {r}]
    /\ UNCHANGED <<progVars, overwrites, manage_roles, banned, guild_channels,
                   role_ow, elsewhere, edits, tasks, calls, lastOp>>

RoleTaken(member, r) ==
    /\ r \in member_roles[member]
    /\ member_roles' = [member_roles EXCEPT ![member] = @ \ {r}]
    /\ UNCHANGED <<progVars, overwrites, manage_roles, banned, guildVars,
                   edits, tasks, calls, lastOp>>

\* One store and one server, nobody isolated; Subject holds any of the roles.
RestoreInit ==
    /\ file = JsonFile([allowed_ids |-> <<AppOwnerId>>, roles |-> <<11>>,
                        channels |-> <<21>>, isolated_users |-> <<>>])
    /\ allowed_ids = LoadStore(file).allowed_ids
    /\ roles = LoadStore(file).roles
    /\ channels = LoadStore(file).channels
    /\ isolated_users = LoadStore(file).isolated_users
    /\ isolation_cache = <<>>
    /\ \E rs \in SUBSET RoleIds :
          member_roles = [m \in Members |-> IF m = Subject THEN rs ELSE InitialRoles(m)]
    /\ overwrites = [c \in ChannelIds |-> "none"]
    /\ manage_roles = TRUE
    /\ banned = {}
    /\ guild_roles = RoleIds
    /\ guild_channels = ChannelIds
    /\ role_ow = [c \in ChannelIds |-> "none"]
    /\ elsewhere = NoElsewhere
    /\ edits = 0
    /\ tasks = NoTasks
    /\ calls = <<>>
    /\ lastOp = NoOp

RestoreNext ==
    \/ Idle /\ \E caller \in Present : \E target \in Targets(caller) \cap Present :
                  Isolate(caller, target)
    \/ Idle /\ \E caller \in Present : \E target \in Targets(caller) \cap Present :
                  Unisolate(caller, target)
    \/ Idle /\ \E r \in RoleIds : RoleDeleted(r)
    \/ Idle /\ \E r \in RoleIds : RoleTaken(Subject, r)
    \/ Return

RestoreSpec == RestoreInit /\ [][RestoreNext]_vars

\* ------------------------------------- isolate and unisolate, overlapping
\* One isolate and one unisolate of Subject, both called by the server owner,
\* run as coroutines on the one event loop: a run keeps the loop from a
\* resumption to its next await, so a step below is the completion of the
\* awaited remote call followed by the code up to the next await.  Sends to
\* the caller, the members and the staff channel change nothing here and are
\* folded into the step that follows them.
Racer == GuildOwnerId

\* the outcomes of one remote call: a run is refused at most MaxFailures calls
Outcomes == IF tasks.refused < MaxFailures THEN {TRUE, FALSE} ELSE {TRUE}

\* a handler takes a step; the record notes whether the other is suspended
Stepped(other, ok) ==
    [tasks EXCEPT !.refused = IF ok THEN @ ELSE @ + 1,
                  !.overlap = @ \/ other.pc \notin {"idle", "done"}]

RECURSIVE Queue(_, _)
Queue(kind, s) ==
    IF s = <<>> THEN <<>> ELSE <<<<kind, Head(s)>>>> \o Queue(kind, Tail(s))

\* lines 269-301: the set_permissions calls isolate makes after the role edit
IsolateQueue(cm) ==
    Queue("clear", Resolving(channels))
    \o (IF cm THEN <<>> ELSE Queue("deny", SortedSeq(DenyTargets)))

\* isolate runs on until its next await: the next set_permissions call, or
\* lines 304-306 and the first notification
IsolateProceed(cm, queue, ok) ==
    IF queue # <<>>
    THEN /\ tasks' = [Stepped(tasks.uni, ok) EXCEPT
                         !.iso = [tasks.iso EXCEPT !.pc = "calls", !.todo = queue,
                                                  !.cm = cm]]
         /\ UNCHANGED <<isolated_users, file>>
    ELSE /\ tasks' = [Stepped(tasks.uni, ok) EXCEPT
                         !.iso = [tasks.iso EXCEPT !.pc = "notify", !.todo = <<>>,
                                                  !.cm = cm]]
         /\ isolated_users' = AddIsolated(isolated_users, Subject)
         /\ file' = IF InList(Subject, isolated_users) THEN file
                    ELSE Persist(file, AddIsolated(isolated_users, Subject), "saved")

\* lines 217-261: the checks, the snapshot, and the role edit is awaited
IsolateBegin ==
    /\ tasks.iso.pc = "idle"
    /\ IF \/ ~Authorized(Racer) \/ HierarchyViolation(Racer, Subject)
          \/ GetIsolationRole = 0
       THEN /\ tasks' = [Stepped(tasks.uni, TRUE) EXCEPT
                            !.iso = [tasks.iso EXCEPT !.pc = "done",
                                                     !.reply = "rejected"]]
            /\ UNCHANGED <<isolation_cache, isolated_users, file>>
       ELSE /\ isolation_cache' =
                  CacheMemberRoles(isolation_cache, Subject, member_roles[Subject])
            /\ IF CanManageRoles(Subject)
               THEN /\ tasks' = [Stepped(tasks.uni, TRUE) EXCEPT
                                    !.iso = [tasks.iso EXCEPT !.pc = "edit", !.cm = TRUE]]
                    /\ UNCHANGED <<isolated_users, file>>
               ELSE IsolateProceed(FALSE, IsolateQueue(FALSE), TRUE)
    /\ UNCHANGED <<allowed_ids, roles, channels, platVars, edits, calls, lastOp>>

\* lines 261-264: the role edit completes
IsolateEdited ==
    /\ tasks.iso.pc = "edit"
    /\ \E ok \in Outcomes :
          /\ member_roles' = IF ok THEN [member_roles EXCEPT ![Subject] = {GetIsolationRole}]
                             ELSE member_roles
          /\ IsolateProceed(ok, IsolateQueue(ok), ok)
    /\ UNCHANGED <<allowed_ids, roles, channels, isolation_cache, overwrites,
                   manage_roles, banned, guildVars, edits, calls, lastOp>>

\* lines 275 and 298: one set_permissions call completes
IsolateCalled ==
    /\ tasks.iso.pc = "calls"
    /\ \E ok \in Outcomes :
       LET call == Head(tasks.iso.todo)
       IN  /\ overwrites' =
                 IF ~ok THEN overwrites
                 ELSE [overwrites EXCEPT
                          ![call[2]] = IF call[1] = "deny" THEN "deny" ELSE "none"]
           /\ IsolateProceed(tasks.iso.cm, Tail(tasks.iso.todo), ok)
    /\ UNCHANGED <<allowed_ids, roles, channels, isolation_cache, member_roles,
                   manage_roles, banned, guildVars, edits, calls, lastOp>>

\* lines 309-331: the notifications and the reply
IsolateNotified ==
    /\ tasks.iso.pc = "notify"
    /\ tasks' = [Stepped(tasks.uni, TRUE) EXCEPT
                    !.iso = [tasks.iso EXCEPT !.pc = "done", !.reply = "isolated"]]
    /\ UNCHANGED <<progVars, platVars, edits, calls, lastOp>>

\* unisolate runs on until its next await: the next set_permissions call, or
\* lines 415-417 and the staff notice
UnisolateProceed(restored, queue, ok) ==
    IF queue # <<>>
    THEN /\ tasks' = [Stepped(tasks.iso, ok) EXCEPT
                         !.uni = [tasks.uni EXCEPT !.pc = "calls", !.todo = queue,
                                                  !.restored = restored]]
         /\ UNCHANGED <<isolated_users, file>>
    ELSE /\ tasks' = [Stepped(tasks.iso, ok) EXCEPT
                         !.uni = [tasks.uni EXCEPT !.pc = "notify", !.todo = <<>>,
                                                  !.restored = restored]]
         /\ isolated_users' = RemoveIsolated(isolated_users, Subject)
         /\ file' = IF InList(Subject, isolated_users)
                    THEN Persist(file, RemoveIsolated(isolated_users, Subject), "saved")
                    ELSE file

\* lines 337-394: the checks, the pop, and the role edit or the warning is
\* awaited
UnisolateBegin ==
    /\ tasks.uni.pc = "idle"
    /\ IF \/ ~Authorized(Racer) \/ CannotManage(Subject)
          \/ GetIsolationRole = 0 \/ ~IsIsolated(Subject)
       THEN /\ tasks' = [Stepped(tasks.iso, TRUE) EXCEPT
                            !.uni = [tasks.uni EXCEPT !.pc = "done",
                                                     !.reply = "rejected"]]
            /\ UNCHANGED isolation_cache
       ELSE LET toApply == RolesToApply(Cached(isolation_cache, Subject))
            IN  /\ isolation_cache' = PopCache(isolation_cache, Subject)
                /\ tasks' = [Stepped(tasks.iso, TRUE) EXCEPT
                                !.uni = [tasks.uni EXCEPT
                                            !.pc = IF toApply # {} THEN "restore"
                                                   ELSE "warned",
                                            !.rs = toApply]]
    /\ UNCHANGED <<allowed_ids, roles, channels, isolated_users, file, platVars,
                   edits, calls, lastOp>>

\* lines 383-390: the edit to the cached roles completes
UnisolateRestored ==
    /\ tasks.uni.pc = "restore"
    /\ \E ok \in Outcomes :
          IF ok
          THEN /\ member_roles' = [member_roles EXCEPT ![Subject] = tasks.uni.rs]
               /\ UnisolateProceed(TRUE, Queue("clear", SortedSeq(guild_channels)), ok)
          ELSE /\ tasks' = [Stepped(tasks.iso, ok) EXCEPT
                               !.uni = [tasks.uni EXCEPT !.pc = "done",
                                                        !.reply = "restore_failed"]]
               /\ UNCHANGED <<member_roles, isolated_users, file>>
    /\ UNCHANGED <<allowed_ids, roles, channels, isolation_cache, overwrites,
                   manage_roles, banned, guildVars, edits, calls, lastOp>>

\* lines 392-401: the warning was sent; the roles without the isolation role
\* are read and the edit to them is awaited
UnisolateWarned ==
    /\ tasks.uni.pc = "warned"
    /\ tasks' = [Stepped(tasks.iso, TRUE) EXCEPT
                    !.uni = [tasks.uni EXCEPT
                                !.pc = "fallback",
                                !.rs = FallbackRoles(Subject, GetIsolationRole)]]
    /\ UNCHANGED <<progVars, platVars, edits, calls, lastOp>>

\* lines 401-403: the fallback edit completes
UnisolateFellBack ==
    /\ tasks.uni.pc = "fallback"
    /\ \E ok \in Outcomes :
          /\ member_roles' = IF ok THEN [member_roles EXCEPT ![Subject] = tasks.uni.rs]
                             ELSE member_roles
          /\ UnisolateProceed(FALSE, Queue("clear", SortedSeq(guild_channels)), ok)
    /\ UNCHANGED <<allowed_ids, roles, channels, isolation_cache, overwrites,
                   manage_roles, banned, guildVars, edits, calls, lastOp>>

\* line 409: one set_permissions call completes
UnisolateCalled ==
    /\ tasks.uni.pc = "calls"
    /\ \E ok \in Outcomes :
       LET call == Head(tasks.uni.todo)
       IN  /\ overwrites' = IF ok THEN [overwrites EXCEPT ![call[2]] = "none"]
                            ELSE overwrites
           /\ UnisolateProceed(tasks.uni.restored, Tail(tasks.uni.todo), ok)
    /\ UNCHANGED <<allowed_ids, roles, channels, isolation_cache, member_roles,
                   manage_roles, banned, guildVars, edits, calls, lastOp>>

\* lines 420-429: the staff notice and the reply
UnisolateNotified ==
    /\ tasks.uni.pc = "notify"
    /\ tasks' = [Stepped(tasks.iso, TRUE) EXCEPT
                    !.uni = [tasks.uni EXCEPT !.pc = "done", !.reply = "restored"]]
    /\ UNCHANGED <<progVars, platVars, edits, calls, lastOp>>

\* Subject is isolated by a role swap (with or without the snapshot of role
\* 12), or is not isolated and holds role 12.
RaceInit ==
    /\ \E was \in BOOLEAN :
          /\ isolated_users = IF was THEN <<Subject>> ELSE <<>>
          /\ member_roles = [m \in Members |->
                                IF m # Subject THEN InitialRoles(m)
                                ELSE IF was THEN {11} ELSE {12}]
          /\ isolation_cache \in
                {<<>>} \cup (IF was THEN {CacheMemberRoles(<<>>, Subject, {12})} ELSE {})
    /\ allowed_ids = <<>>
    /\ roles = <<11>>
    /\ channels = <<21>>
    /\ file = JsonFile([allowed_ids |-> allowed_ids, roles |-> roles,
                        channels |-> channels, isolated_users |-> isolated_users])
    /\ overwrites = [c \in ChannelIds |-> "none"]
    /\ manage_roles \in BOOLEAN
    /\ banned = {}
    /\ guild_roles = RoleIds
    /\ guild_channels = ChannelIds
    /\ role_ow = [c \in ChannelIds |-> "none"]
    /\ elsewhere = NoElsewhere
    /\ edits = 0
    /\ tasks = NoTasks
    /\ calls = <<>>
    /\ lastOp = NoOp

RaceNext ==
    \/ IsolateBegin
    \/ IsolateEdited
    \/ IsolateCalled
    \/ IsolateNotified
    \/ UnisolateBegin
    \/ UnisolateRestored
    \/ UnisolateWarned
    \/ UnisolateFellBack
    \/ UnisolateCalled
    \/ UnisolateNotified

RaceSpec == RaceInit /\ [][RaceNext]_vars

\* --------------------------------------------- the configuration commands
\* The stores the operator starts from: none yet, or one written by hand
\* commands before the server was set up.
ConfigStores ==
    {DefaultStore,
     [allowed_ids |-> <<HelperRole>>, roles |-> <<13>>, channels |-> <<22>>,
      isolated_users |-> <<Subject>>]}

\* The server has neither the setup role nor the private channel yet.  An
\* isolated Subject holds the isolation role; the snapshot of Subject's (no)
\* roles is cached when the isolation happened since the process started.
ConfigInit ==
    /\ file \in {JsonFile(s) : s \in ConfigStores}
    /\ allowed_ids = LoadStore(file).allowed_ids
    /\ roles = LoadStore(file).roles
    /\ channels = LoadStore(file).channels
    /\ isolated_users = LoadStore(file).isolated_users
    /\ guild_roles = RoleIds \ {SetupRole}
    /\ guild_channels = ChannelIds \ {IsoChannel}
    /\ isolation_cache \in
          {<<>>} \cup (IF InList(Subject, isolated_users)
                      THEN {CacheMemberRoles(<<>>, Subject, {})} ELSE {})
    /\ member_roles = [m \in Members |->
                          IF m = Subject /\ InList(Subject, isolated_users)
                          THEN {GetIsolationRole} ELSE InitialRoles(m)]
    /\ overwrites = [c \in ChannelIds |-> "none"]
    /\ manage_roles = TRUE
    /\ banned = {}
    /\ role_ow = [c \in ChannelIds |-> "none"]
    /\ elsewhere = NoElsewhere
    /\ edits = 0
    /\ tasks = NoTasks
    /\ calls = <<>>
    /\ lastOp = NoOp

ConfigNext ==
    \/ Idle /\ \E caller \in Present : \E action \in ActionWords : \E id \in IdArgs :
                  Isoperm(caller, action, id)
    \/ Idle /\ \E caller \in Present : \E role \in guild_roles \cup {Nothing} :
                  RoleAdd(caller, role)
    \/ Idle /\ \E caller \in Present : \E role \in guild_roles \cup {Nothing} :
                  RoleRemove(caller, role)
    \/ Idle /\ \E caller \in Present : \E channel \in guild_channels \cup {Nothing} :
                  ChannelAdd(caller, channel)
    \/ Idle /\ \E caller \in Present : \E channel \in guild_channels \cup {Nothing} :
                  ChannelRemove(caller, channel)
    \/ Idle /\ \E caller \in Present : Setup(caller)
    \/ Idle /\ \E caller \in Present : ClearCache(caller)
    \/ Idle /\ \E caller \in Present : Cleanup(caller)
    \/ Idle /\ Restart
    \/ Return

ConfigSpec == ConfigInit /\ [][ConfigNext]_vars

\* ------------------------------------------------- all the handlers
\* isolation show: the lists are formatted and sent as an embed, or as text
\* when the embed is refused
Show(caller) ==
    IF ~IsAppOwner(caller) THEN Reject("show", caller, caller, "operator_only")
    ELSE \E F \in UpTo({<<"embed", 0>>}, MaxFailures) :
            /\ calls' = <<Call("embed", 0, F)>>
                        \o (IF <<"embed", 0>> \in F THEN <<Reply>> ELSE <<>>)
            /\ lastOp' = [Called("show", caller, caller) EXCEPT
                             !.reply = "shown", !.refused = F]
            /\ UNCHANGED <<progVars, platVars, edits, tasks>>

\* One store and one server; the lists name the operator, role 11 and
\* channel 21; nobody is isolated, Subject holds role 12.  One configuration
\* edit is made in a behaviour, among any number of the other commands.
FrameInit ==
    /\ file = JsonFile([allowed_ids |-> <<AppOwnerId>>, roles |-> <<11>>,
                        channels |-> <<21>>, isolated_users |-> <<>>])
    /\ allowed_ids = LoadStore(file).allowed_ids
    /\ roles = LoadStore(file).roles
    /\ channels = LoadStore(file).channels
    /\ isolated_users = LoadStore(file).isolated_users
    /\ isolation_cache = <<>>
    /\ member_roles = [m \in Members |-> IF m = Subject THEN {12} ELSE InitialRoles(m)]
    /\ overwrites = [c \in ChannelIds |-> "none"]
    /\ manage_roles = TRUE
    /\ banned = {}
    /\ guild_roles = RoleIds
    /\ guild_channels = ChannelIds
    /\ role_ow = [c \in ChannelIds |-> "none"]
    /\ elsewhere = NoElsewhere
    /\ edits = MaxEdits - 1
    /\ tasks = NoTasks
    /\ calls = <<>>
    /\ lastOp = NoOp

FrameNext ==
    \/ Idle /\ \E caller \in Present : \E target \in Targets(caller) \cap Present :
                  Isolate(caller, target)
    \/ Idle /\ \E caller \in Present : \E target \in Targets(caller) \cap Present :
                  Unisolate(caller, target)
    \/ Idle /\ \E member \in Present : OnMemberJoin(member)
    \/ Idle /\ \E caller \in Present : \E action \in ActionWords : \E id \in IdArgs :
                  Isoperm(caller, action, id)
    \/ Idle /\ \E caller \in Present : \E role \in guild_roles \cup {Nothing} :
                  RoleAdd(caller, role)
    \/ Idle /\ \E caller \in Present : \E role \in guild_roles \cup {Nothing} :
                  RoleRemove(caller, role)
    \/ Idle /\ \E caller \in Present : \E channel \in guild_channels \cup {Nothing} :
                  ChannelAdd(caller, channel)
    \/ Idle /\ \E caller \in Present : \E channel \in guild_channels \cup {Nothing} :
                  ChannelRemove(caller, channel)
    \/ Idle /\ \E caller \in Present : Setup(caller)
    \/ Idle /\ \E caller \in Present : Show(caller)
    \/ Idle /\ \E caller \in Present : ClearCache(caller)
    \/ Idle /\ \E caller \in Present : Cleanup(caller)
    \/ Return

FrameSpec == FrameInit /\ [][FrameNext]_vars

\* ------------------------------------------------------- save and load
\* The IDs stores are built from, and the lists of at most MaxLen of them,
\* in any order and with repetitions.
IdPool == {0, 5, 3}

IdLists == UNION {[1..n -> IdPool] : n \in 0..MaxLen}

\* lists the role and channel collections are drawn from
SampleLists == {<<>>, <<13, 11, 13>>}

\* Any store may be handed to save; the file is missing, cut off, or in the
\* earlier format.
RoundTripInit ==
    /\ allowed_ids \in IdLists
    /\ roles \in SampleLists
    /\ channels \in SampleLists
    /\ isolated_users \in IdLists
    /\ file \in {GarbageFile, ListFile(<<5, 3>>)}
    /\ isolation_cache = <<>>
    /\ member_roles = [m \in Members |-> InitialRoles(m)]
    /\ overwrites = [c \in ChannelIds |-> "none"]
    /\ manage_roles = TRUE
    /\ banned = {}
    /\ guild_roles = RoleIds
    /\ guild_channels = ChannelIds
    /\ role_ow = [c \in ChannelIds |-> "none"]
    /\ elsewhere = NoElsewhere
    /\ edits = 0
    /\ tasks = NoTasks
    /\ calls = <<>>
    /\ lastOp = NoOp

\* _save_store(store) with the lists in memory; the record keeps whether it
\* was given what a load had just read from a written file
Save ==
    \E outcome \in {"saved", "refused", "cut"} :
       /\ file' = SaveStore(file, Store, outcome)
       /\ lastOp' = [NoOp EXCEPT !.op = "save", !.reply = outcome,
                                 !.again = lastOp.op = "load" /\ lastOp.follows]
       /\ UNCHANGED <<allowed_ids, roles, channels, isolated_users, isolation_cache,
                      platVars, edits, tasks, calls>>

\* _load_store() into the lists in memory; the record keeps whether the file
\* had just been written
Load ==
    /\ allowed_ids' = LoadStore(file).allowed_ids
    /\ roles' = LoadStore(file).roles
    /\ channels' = LoadStore(file).channels
    /\ isolated_users' = LoadStore(file).isolated_users
    /\ lastOp' = [NoOp EXCEPT !.op = "load",
                              !.follows = lastOp.op = "save" /\ lastOp.reply = "saved"]
    /\ UNCHANGED <<file, isolation_cache, platVars, edits, tasks, calls>>

RoundTripNext == Save \/ Load

RoundTripSpec == RoundTripInit /\ [][RoundTripNext]_vars

\* =================================================================== claims
\* The caller is covered by allowedPrincipals: by own ID or by a held role ID.
Covered(c) ==
    c \in Range(allowed_ids) \/ member_roles[c] \cap Range(allowed_ids) # {}

\* The step is a call of the handler op.
Ran(op) == lastOp'.op = op

\* C1: for every (caller, target) where the caller is neither the server owner
\* nor covered by allowedPrincipals, isolate and unisolate change nothing (role
\* cache, isolatedMembers, persisted record, target roles, channel overwrites)
\* and issue no remote call other than the rejection reply.
C1_UnauthorizedChangesNothing ==
    [][ ((Ran("isolate") \/ Ran("unisolate"))
         /\ lastOp'.caller # GuildOwnerId /\ ~Covered(lastOp'.caller))
        => (calls' = <<Reply>> /\ UNCHANGED <<progVars, platVars>>) ]_vars

\* an unauthorized role holder was turned away from unisolating an isolated member
C1_Witness ==
    /\ lastOp.op = "unisolate" /\ lastOp.reply = "no_permission"
    /\ lastOp.was /\ member_roles[lastOp.caller] # {}
    /\ lastOp.caller # lastOp.target

\* C2: for every member whose ID is not in isolatedMembers at the time of the
\* rejoin event, on_member_join is a no-op: no ban call, no staff notice, no
\* state change.
C2_UnflaggedJoinIsNoOp ==
    [][ (Ran("join") /\ lastOp'.target \notin Range(isolated_users))
        => (calls' = <<>> /\ UNCHANGED <<progVars, platVars>>) ]_vars

\* an unflagged member joined while another member is flagged
C2_Witness ==
    /\ lastOp.op = "join" /\ lastOp.reply = "ignored"
    /\ isolated_users # <<>> /\ banned = {}

\* C3: for every rejoin event of a member whose ID is in isolatedMembers, a ban
\* of the member is attempted before any staff notice, and whatever fails the
\* handler completes without raising and leaves isolatedMembers and the role
\* cache unchanged.
C3_FlaggedJoinBansFirst ==
    [][ (Ran("join") /\ lastOp'.target \in Range(isolated_users))
        => /\ calls' # <<>>
           /\ calls'[1].k = "ban" /\ calls'[1].a = lastOp'.target
           /\ \A i \in 1..Len(calls') : calls'[i].k = "staff" => i > 1
           /\ ~lastOp'.raised
           /\ isolated_users' = isolated_users
           /\ isolation_cache' = isolation_cache ]_vars

\* a flagged member with a cached snapshot rejoined, was banned, and the staff
\* notice failed
C3_Witness ==
    /\ lastOp.op = "join" /\ lastOp.was /\ lastOp.had
    /\ <<"staff", 0>> \in lastOp.refused
    /\ lastOp.target \in banned

\* C4: isolating a member with a successful role swap and then immediately
\* unisolating them (same process, no restart, no clearcache) leaves the member
\* with exactly the pre-isolation set of non-default roles, for every
\* pre-isolation role set including the empty one; the platform accepting the
\* role edit of the unisolate is understood.
C4_RoundTripRestoresRoles ==
    (lastOp.op = "unisolate" /\ lastOp.follows /\ lastOp.editOk)
    => member_roles[lastOp.target] = lastOp.orig

\* a round trip that gave back two roles from the cache
C4_Witness ==
    /\ lastOp.op = "unisolate" /\ lastOp.follows /\ lastOp.editOk
    /\ lastOp.restored
    /\ Cardinality(lastOp.orig) = 2
    /\ member_roles[lastOp.target] = lastOp.orig

\* the round trip of a member who had no role
C4_EmptySetWitness ==
    /\ lastOp.op = "unisolate" /\ lastOp.follows /\ lastOp.editOk
    /\ lastOp.orig = {} /\ lastOp.pre # {}
    /\ member_roles[lastOp.target] = {}

\* C5: calling isolate on an already isolated target never puts a second entry
\* for the target in isolatedMembers, and the cached snapshot after the call is
\* exactly the target's non-default roles at the time of that call: it replaces
\* the earlier snapshot and is not merged with it.
C5_IsolateTwice ==
    (lastOp.op = "isolate" /\ lastOp.was /\ lastOp.reply \in {"isolated", "raised"})
    => /\ Count(isolated_users, lastOp.target) = 1
       /\ HasSnapshot(isolation_cache, lastOp.target)
       /\ isolation_cache[lastOp.target] = lastOp.pre

\* a second isolate replaced a snapshot holding a role the target has no more
C5_Witness ==
    /\ lastOp.op = "isolate" /\ lastOp.was /\ lastOp.had
    /\ lastOp.reply = "isolated"
    /\ lastOp.snap \ lastOp.pre # {}
    /\ isolation_cache[lastOp.target] = lastOp.pre

\* The caller may use the moderation commands.
Entitled(c) == c = GuildOwnerId \/ Covered(c)

\* No ID in isolationRoles resolves to an existing role.
NoRoleResolves == \A i \in 1..Len(roles) : roles[i] \notin guild_roles

\* C6: an authorized isolate call that fails a precondition (target equals
\* caller; caller is not the server owner and the caller's top role does not
\* outrank the target's; no ID in isolationRoles resolves to an existing role)
\* is rejected with no mutation: no snapshot is cached, the target's roles and
\* overwrites are untouched, isolatedMembers is unchanged, nothing is persisted.
C6_FailedPreconditionChangesNothing ==
    [][ (Ran("isolate") /\ Entitled(lastOp'.caller)
         /\ \/ lastOp'.target = lastOp'.caller
            \/ /\ lastOp'.caller # GuildOwnerId
               /\ TopRole(lastOp'.caller) <= TopRole(lastOp'.target)
            \/ NoRoleResolves)
        => /\ calls' = <<Reply>>
           /\ lastOp'.reply \in {"self", "hierarchy", "no_role"}
           /\ UNCHANGED <<progVars, platVars>> ]_vars

\* a moderator was turned away from isolating a member of equal rank
C6_Witness ==
    /\ lastOp.op = "isolate" /\ lastOp.reply = "hierarchy"
    /\ lastOp.pre # {}
    /\ TopRole(lastOp.caller) = TopRole(lastOp.target)
    /\ GetIsolationRole # 0

\* C7: in unisolate, when a cached snapshot exists and the call that replaces
\* the target's roles with the filtered cached roles is refused, the operation
\* falls back to removing only the isolation role, goes on to clear the
\* overwrites and removes the target from isolatedMembers; it does not abort.
C7_RefusedRestoreFallsBack ==
    (/\ lastOp.op = "unisolate" /\ lastOp.was
     /\ RolesToApply(lastOp.snap) # {}
     /\ <<"edit", lastOp.target>> \in lastOp.refused)
    => /\ ~InList(lastOp.target, isolated_users)
       /\ \E i \in 1..Len(calls) : calls[i].k = "clear"

\* the replace call was refused and the handler returned at once
C7_Aborted ==
    /\ lastOp.op = "unisolate" /\ lastOp.reply = "restore_failed"
    /\ InList(lastOp.target, isolated_users)
    /\ ~HasSnapshot(isolation_cache, lastOp.target)
    /\ member_roles[lastOp.target] = lastOp.pre

\* C8: when unisolate is called by an authorized caller on a target in
\* isolatedMembers for which the cache holds no snapshot, and the call passes
\* the bot's own preconditions, the fallback path is taken: the isolation role
\* is removed from the target's current roles while every other role is kept
\* (the roles stay as they were if the platform refuses that edit),
\* rolesRestored is false, and isolatedMembers no longer contains the target.
C8_NoSnapshotFallsBack ==
    [][ (/\ Ran("unisolate") /\ Entitled(lastOp'.caller)
         /\ lastOp'.target \in Range(isolated_users)
         /\ lastOp'.target \notin DOMAIN isolation_cache
         /\ manage_roles /\ BotTopRole > TopRole(lastOp'.target)
         /\ ~NoRoleResolves)
        => /\ ~lastOp'.restored
           /\ lastOp'.target \notin Range(isolated_users')
           /\ member_roles'[lastOp'.target] =
                 IF <<"edit", lastOp'.target>> \in lastOp'.refused
                 THEN member_roles[lastOp'.target]
                 ELSE member_roles[lastOp'.target] \ {GetIsolationRole} ]_vars

\* without a snapshot the isolation role was taken off and another role kept
C8_Witness ==
    /\ lastOp.op = "unisolate" /\ lastOp.was /\ ~lastOp.had
    /\ ~lastOp.restored /\ lastOp.editOk
    /\ GetIsolationRole \in lastOp.pre
    /\ member_roles[lastOp.target] = lastOp.pre \ {GetIsolationRole}
    /\ member_roles[lastOp.target] # {}
    /\ ~InList(lastOp.target, isolated_users)

\* the server's channels that are not in isolationChannels
OtherChannels == guild_channels \ Range(channels)

\* C9: when role-management capability is absent (or the bot does not outrank
\* the target), an isolate call that passes its preconditions still succeeds
\* via the fallback: the target is added to isolatedMembers and the reported
\* count of updated channels equals the number of server channels minus the
\* number of those channels that are in isolationChannels, less the channels
\* on which the platform refused the deny-all call (none in the scenario).
C9_FallbackIsolates ==
    [][ (/\ Ran("isolate") /\ Entitled(lastOp'.caller)
         /\ lastOp'.target # lastOp'.caller
         /\ \/ lastOp'.caller = GuildOwnerId
            \/ TopRole(lastOp'.caller) > TopRole(lastOp'.target)
         /\ ~NoRoleResolves
         /\ ~(manage_roles /\ BotTopRole > TopRole(lastOp'.target)))
        => /\ lastOp'.target \in Range(isolated_users')
           /\ lastOp'.updated =
                 (Cardinality(guild_channels)
                  - Cardinality(guild_channels \cap Range(channels)))
                 - Cardinality({c \in guild_channels : <<"deny", c>> \in lastOp'.refused})
           /\ \A c \in OtherChannels :
                 <<"deny", c>> \notin lastOp'.refused => overwrites'[c] = "deny" ]_vars

\* without role management a member was isolated by deny-all on every channel
\* but the isolation channel
C9_Witness ==
    /\ lastOp.op = "isolate" /\ ~lastOp.manage /\ ~lastOp.was
    /\ lastOp.refused = {}
    /\ InList(lastOp.target, isolated_users)
    /\ guild_channels \cap Range(channels) # {}
    /\ lastOp.updated = Cardinality(OtherChannels) /\ lastOp.updated > 0
    /\ member_roles[lastOp.target] = lastOp.pre

\* the role swap of the step was issued and accepted
SwapAccepted == \E i \in 1..Len(calls') : calls'[i].k = "edit" /\ calls'[i].ok

\* C10: during isolate a member-specific deny-all overwrite is applied to a
\* channel only if the role swap did not succeed and the channel is not in
\* isolationChannels; when the role swap succeeds no deny-all overwrite is
\* applied anywhere (reported count 0); and in every run the target's
\* member-specific overwrite on each channel of isolationChannels is cleared
\* (a clear call is issued on each such channel of the server, and takes
\* effect when accepted) and never set to deny-all there.
C10_DenyOnlyAsFallback ==
    [][ (Ran("isolate") /\ lastOp'.reply \in {"isolated", "raised"})
        => /\ \A i \in 1..Len(calls') :
                 calls'[i].k = "deny"
                 => ~SwapAccepted /\ calls'[i].a \notin Range(channels)
           /\ \A c \in ChannelIds :
                 (overwrites'[c] = "deny" /\ overwrites[c] # "deny")
                 => ~SwapAccepted /\ c \notin Range(channels)
           /\ SwapAccepted => lastOp'.updated = 0
           /\ \A c \in guild_channels \cap Range(channels) :
                 \E i \in 1..Len(calls') :
                    /\ calls'[i].k = "clear" /\ calls'[i].a = c
                    /\ calls'[i].ok => overwrites'[c] = "none" ]_vars

\* a role swap went through: the isolation channel was cleared and a channel
\* outside isolationChannels was left alone
C10_Witness ==
    /\ lastOp.op = "isolate" /\ lastOp.swapped /\ lastOp.updated = 0
    /\ member_roles[lastOp.target] = {GetIsolationRole}
    /\ OtherChannels # {}
    /\ \A i \in 1..Len(calls) : calls[i].k # "deny"
    /\ \E i \in 1..Len(calls) : calls[i].k = "clear" /\ calls[i].ok
                                 /\ overwrites[calls[i].a] = "none"

\* C11: the notifications sent at the end of isolate and unisolate (message to
\* the target, message to the server owner, staff-channel log entry) are
\* best-effort: whichever of them fails, the handler does not raise, the
\* operation still reports success to the caller, and the mutations already
\* made (isolatedMembers among them) are not rolled back.
C11_NotificationsBestEffort ==
    (lastOp.op \in {"isolate", "unisolate"}
     /\ lastOp.refused \cap {<<"dm", lastOp.target>>, <<"dm", GuildOwnerId>>,
                             <<"staff", 0>>} # {})
    => /\ ~lastOp.raised
       /\ calls # <<>> /\ calls[Len(calls)] = Reply
       /\ lastOp.op = "isolate" => InList(lastOp.target, isolated_users)
       /\ lastOp.op = "unisolate" => ~InList(lastOp.target, isolated_users)

\* the staff channel refused the log entry of an isolate: the handler raised
\* after its mutations and the caller got no answer
C11_StaffLogRaised ==
    /\ lastOp.op = "isolate" /\ lastOp.raised
    /\ lastOp.refused = {<<"staff", 0>>}
    /\ InList(lastOp.target, isolated_users)
    /\ \A i \in 1..Len(calls) : calls[i] # Reply

\* C12: persistence is atomic: in every reachable state, one where a save
\* failed or was cut off part-way included, the backing file parses, and it
\* holds either the previous valid snapshot or the new one.
C12_FileAlwaysParses ==
    [][ /\ file'.kind = "json"
        /\ \/ file' = file
           \/ file' = JsonFile(Normalized(
                 [allowed_ids |-> allowed_ids', roles |-> roles',
                  channels |-> channels', isolated_users |-> isolated_users'])) ]_vars

\* a cut-off write left a file that does not parse; the restarted process has
\* lost the isolated member it had on record
C12_LostOnRestart ==
    /\ lastOp.op = "restart" /\ file.kind = "garbage"
    /\ isolated_users = <<>>
    /\ member_roles[Subject] = {11}

\* C14: cleanup removes from isolatedMembers exactly the IDs that are in both
\* isolatedMembers and the server's banned-user set; every other ID, in
\* particular a member who left without being banned, stays; the role cache is
\* not touched.
C14_CleanupRemovesBanned ==
    [][ (Ran("cleanup") /\ lastOp'.caller = AppOwnerId)
        => /\ Range(isolated_users') = Range(isolated_users) \ banned
           /\ isolation_cache' = isolation_cache ]_vars

\* the ban list could not be fetched: cleanup answered that it completed and
\* the banned member is still on the isolated list
C14_BannedKept ==
    /\ lastOp.op = "cleanup" /\ lastOp.reply = "cleaned"
    /\ lastOp.updated = 0
    /\ Range(isolated_users) \cap banned # {}

\* C15: unisolate consults the role cache only after confirming the target is
\* in isolatedMembers: a call on a target not in isolatedMembers is rejected
\* (as not isolated, when it gets that far), does not pop or use any snapshot
\* for the target, and changes no roles or overwrites.
C15_NotIsolatedKeepsCache ==
    [][ (Ran("unisolate") /\ lastOp'.target \notin Range(isolated_users))
        => /\ calls' = <<Reply>>
           /\ UNCHANGED <<progVars, platVars>>
           /\ (/\ Entitled(lastOp'.caller)
               /\ manage_roles /\ BotTopRole > TopRole(lastOp'.target)
               /\ ~NoRoleResolves)
              => lastOp'.reply = "not_isolated" ]_vars

\* a member whose flag a cleanup removed still has a snapshot in the cache;
\* the unisolate was turned away and the snapshot is still there
C15_Witness ==
    /\ lastOp.op = "unisolate" /\ lastOp.reply = "not_isolated"
    /\ lastOp.had /\ lastOp.snap # {}
    /\ HasSnapshot(isolation_cache, lastOp.target)
    /\ isolation_cache[lastOp.target] = lastOp.snap

\* what a successful save of the collections after the step leaves on disk
FlushedAfter ==
    JsonFile(Normalized([allowed_ids |-> allowed_ids', roles |-> roles',
                         channels |-> channels',
                         isolated_users |-> isolated_users']))

\* the step is a handler run that reached a _persist call
Persisted ==
    \/ Ran("isolate") /\ lastOp'.reply \in {"isolated", "raised"}
                      /\ lastOp'.target \notin Range(isolated_users)
    \/ Ran("unisolate") /\ lastOp'.reply \in {"restored", "raised"}
    \/ Ran("cleanup") /\ lastOp'.reply = "cleaned"

\* C18: a failed save never raises past the store boundary and never blocks
\* the operation: the in-memory collections still carry the mutation (so a
\* later rejoin check or unisolate in the same process sees it), the file is
\* not the new state, and the next successful flush writes the full current
\* state.
C18_FailedSaveKeepsMemory ==
    [][ Persisted
        => /\ lastOp'.raised => <<"staff", 0>> \in lastOp'.refused
           /\ Ran("isolate") => lastOp'.target \in Range(isolated_users')
           /\ Ran("unisolate") => lastOp'.target \notin Range(isolated_users')
           /\ IF lastOp'.refused \cap SaveSlots # {}
              THEN file' \in {file, GarbageFile}
              ELSE file' = FlushedAfter ]_vars

\* the save of an isolate failed; the member left and rejoined and was banned
\* on the strength of the in-memory list, which the file does not have
C18_Witness ==
    /\ lastOp.op = "join" /\ lastOp.reply = "banned" /\ lastOp.was
    /\ lastOp.target \notin Range(LoadStore(file).isolated_users)
    /\ Len(roles) > 0

\* the clear calls of the step that the platform accepted
ClearsAccepted == {i \in 1..Len(calls') : calls'[i].k = "clear" /\ calls'[i].ok}

\* C19: once unisolate has passed its preconditions and finished its role
\* step, failures of any subset of the per-channel overwrite-clear calls do not
\* fail the operation: the target is removed from isolatedMembers and persisted
\* regardless, and the reported overwrite-clear count equals the number of
\* channels whose clear call succeeded.
C19_ClearFailuresTolerated ==
    [][ (/\ Ran("unisolate") /\ Entitled(lastOp'.caller)
         /\ manage_roles /\ BotTopRole > TopRole(lastOp'.target)
         /\ ~NoRoleResolves
         /\ lastOp'.target \in Range(isolated_users)
         /\ lastOp'.reply # "restore_failed")
        => /\ lastOp'.target \notin Range(isolated_users')
           /\ lastOp'.refused \cap SaveSlots = {} => file' = FlushedAfter
           /\ lastOp'.cleared = Cardinality(ClearsAccepted)
           /\ \A c \in guild_channels :
                 \E i \in 1..Len(calls') : calls'[i].k = "clear" /\ calls'[i].a = c
           /\ (\A x \in lastOp'.refused : x[1] = "clear")
              => lastOp'.reply = "restored" /\ calls'[Len(calls')] = Reply ]_vars

\* one clear call was refused and another accepted; the member was restored
C19_Witness ==
    /\ lastOp.op = "unisolate" /\ lastOp.reply = "restored"
    /\ lastOp.cleared = 1
    /\ \E c \in guild_channels : lastOp.refused = {<<"clear", c>>}
    /\ ~InList(lastOp.target, isolated_users)
    /\ file.kind = "json" /\ lastOp.target \notin Range(file.store.isolated_users)


\* ----------------------------------------------------------------- C13
\* s lists its IDs in ascending order with none repeated
Ascending(s) == \A i \in 1..(Len(s) - 1) : s[i] < s[i + 1]

\* C13: after any sequence of operations (isoperm add/remove, role/channel
\* add/remove, setup, cleanup, load) each of the four collections of the
\* configuration holds de-duplicated IDs in ascending order.
C13_CollectionsSorted ==
    /\ Ascending(allowed_ids)
    /\ Ascending(roles)
    /\ Ascending(channels)
    /\ Ascending(isolated_users)

\* setup appended the ID of the role it created behind a larger role ID: the
\* list in memory is out of order while the file written by the same run is
\* sorted, so the first listed role differs from the one a restart would give
C13_OrderKept ==
    /\ lastOp.op = "setup"
    /\ ~Ascending(roles)
    /\ file.kind = "json"
    /\ Ascending(file.store.roles)
    /\ Range(file.store.roles) = Range(roles)
    /\ Head(roles) # Head(file.store.roles)


\* ----------------------------------------------------------------- C16
\* the commands that change the configuration
ConfigCommands ==
    {"isoperm", "role_add", "role_remove", "channel_add", "channel_remove",
     "setup", "cleanup"}

C16_ClearCacheWitness ==
    /\ lastOp.op = "clearcache"
    /\ lastOp.caller = AppOwnerId
    /\ lastOp.reply = "owner_only"
    /\ HasSnapshot(isolation_cache, Subject)


\* ----------------------------------------------------------------- C17
\* the calls of the run that the server accepted and that rewrite the setup
\* role's overwrite in a channel
Rewrites ==
    {i \in 1..Len(calls') : calls'[i].k \in {"roledeny", "chedit"} /\ calls'[i].ok}

\* C17: a setup run that directly follows a run in which nothing was refused
\* creates no role and no channel, leaves the role list and the channel list
\* as they are, and rewrites the setup role's overwrite only in channels where
\* it differed from the deny-all template when the run began; when again
\* nothing is refused, the overwrites and the file end as they began.
C17_SetupTwice ==
    [][ (Ran("setup") /\ lastOp'.again)
        => /\ guild_roles' = guild_roles
           /\ guild_channels' = guild_channels
           /\ \A i \in 1..Len(calls') : calls'[i].k \notin {"mkrole", "mkchan"}
           /\ roles' = roles
           /\ channels' = channels
           /\ \A i \in Rewrites : role_ow[calls'[i].a] \notin DenyAll
           /\ lastOp'.clean
              => role_ow' = role_ow /\ overwrites' = overwrites /\ file' = file
       ]_vars

\* a second run right after a first in which nothing was refused, on a server
\* with another channel beside the private one: it rewrote one channel
C17_Witness ==
    /\ lastOp.op = "setup"
    /\ lastOp.again
    /\ lastOp.clean
    /\ lastOp.updated = 1
    /\ \E c \in guild_channels \ {IsoChannel} : role_ow[c] \in DenyAll
    /\ role_ow[IsoChannel] = "allow"


\* ----------------------------------------------------------------- C20
\* the de-duplicated ascending lists of the IDs of the store in memory
Canonical ==
    [allowed_ids |-> SortedSeq(Range(allowed_ids)),
     roles |-> SortedSeq(Range(roles)),
     channels |-> SortedSeq(Range(channels)),
     isolated_users |-> SortedSeq(Range(isolated_users))]

\* C20: a load that follows a save yields, for each of the four collections,
\* the de-duplicated ascending list of the IDs of the store that was saved;
\* saving what that load read writes the same content again.
C20_SaveLoadStable ==
    [][ /\ (Ran("load") /\ lastOp'.follows)
           => /\ allowed_ids' = Canonical.allowed_ids
              /\ roles' = Canonical.roles
              /\ channels' = Canonical.channels
              /\ isolated_users' = Canonical.isolated_users
        /\ (Ran("save") /\ lastOp'.again /\ lastOp'.reply = "saved")
           => file' = file ]_vars

\* a store with a repeated and out-of-order ID was saved, loaded and saved
\* again: the lists in memory are the sorted ones and the file is as it was
C20_Witness ==
    /\ lastOp.op = "save"
    /\ lastOp.again
    /\ lastOp.reply = "saved"
    /\ allowed_ids = <<3, 5>>
    /\ roles = <<11, 13>>
    /\ isolated_users = <<0>>
    /\ file = JsonFile(Store)


\* ----------------------------------------------------------------- C21
\* C21: unisolate has exactly three preconditions: called by an authorized
\* caller on a target in isolatedMembers whose top role the bot outranks, the
\* bot holding role management, it is not rejected and ends with the target
\* removed from isolatedMembers; under the same conditions a target that is
\* not in isolatedMembers is rejected as not isolated.
C21_ThreePreconditions ==
    [][ (/\ Ran("unisolate") /\ Entitled(lastOp'.caller)
         /\ manage_roles /\ BotTopRole > TopRole(lastOp'.target))
        => IF lastOp'.target \in Range(isolated_users)
           THEN lastOp'.target \notin Range(isolated_users')
           ELSE lastOp'.reply = "not_isolated" ]_vars

\* the three preconditions held and unisolate was turned away because no
\* listed isolation role exists on the server: the target stays isolated
C21_RoleRequired ==
    /\ lastOp.op = "unisolate"
    /\ lastOp.reply = "no_role"
    /\ Entitled(lastOp.caller)
    /\ ~CannotManage(lastOp.target)
    /\ lastOp.was
    /\ InList(lastOp.target, isolated_users)


C22_RejoinWitness ==
    /\ lastOp.op = "join"
    /\ lastOp.reply = "banned"
    /\ lastOp.target = Subject
    /\ Subject \in lastOp.kept
    /\ ~lastOp.had
    /\ lastOp.pre = {GetIsolationRole}


\* ----------------------------------------------------------------- C23
\* Subject holds the isolation role or carries a deny-all overwrite
Confined ==
    \/ GetIsolationRole \in member_roles[Subject]
    \/ \E c \in guild_channels : overwrites[c] = "deny"

\* both handler runs have completed and no remote call was refused
BothDone == tasks.iso.pc = "done" /\ tasks.uni.pc = "done" /\ tasks.refused = 0

\* C23: under every interleaving of one isolate and one unisolate of the
\* same member, each suspending only at its remote calls, once both have
\* completed the member is in isolatedMembers exactly if the member is still
\* confined (holds the isolation role or carries the deny-all overwrites).
C23_RaceEndsConsistent ==
    BothDone => (InList(Subject, isolated_users) <=> Confined)

\* The runs overlapped and both completed with every call accepted: isolate
\* began after unisolate had put role 12 back (its snapshot is {12}), found
\* Subject still listed at line 304, and unisolate then took Subject off the
\* list: Subject holds the isolation role and is not in isolatedMembers.
C23_ConfinedUnlisted ==
    /\ BothDone
    /\ tasks.overlap
    /\ tasks.iso.reply = "isolated"
    /\ tasks.uni.reply = "restored"
    /\ Cached(isolation_cache, Subject) = {12}
    /\ member_roles[Subject] = {GetIsolationRole}
    /\ ~InList(Subject, isolated_users)


\* ----------------------------------------------------------------- C24
\* C24: after any unisolate that reports success the target does not hold the
\* isolation role, whatever isolate calls on the target came before (isolate
\* called twice included).
C24_UnisolatedDropsIsolationRole ==
    (lastOp.op = "unisolate" /\ lastOp.reply = "restored")
    => GetIsolationRole \notin member_roles[lastOp.target]

\* isolate was called on a target that already held only the isolation role,
\* so the snapshot was the isolation role; unisolate applied that snapshot,
\* the platform accepted it, and the target still holds the isolation role
\* while off the isolated list
C24_RestoredIsolationRole ==
    /\ lastOp.op = "unisolate"
    /\ lastOp.reply = "restored"
    /\ lastOp.restored
    /\ lastOp.editOk
    /\ lastOp.snap = {GetIsolationRole}
    /\ member_roles[lastOp.target] = {GetIsolationRole}
    /\ ~InList(lastOp.target, isolated_users)


\* ----------------------------------------------------------------- C25
\* C25: the canonical isolation role (the first listed role ID that resolves
\* to an existing role) is the same before and after a save-and-restart, in
\* whatever order the role IDs were added.
C25_CanonicalRoleSurvivesRestart ==
    [][ (Ran("restart") /\ file = JsonFile(Normalized(Store)))
        => FirstExisting(roles') = FirstExisting(roles) ]_vars

\* Subject was isolated under role 13; setup then added the smaller ID 11
\* behind it and saved; after the restart the list is <<11, 13>> and the
\* canonical role is 11, a role Subject does not hold
C25_CanonicalChanged ==
    /\ lastOp.op = "restart"
    /\ roles = <<11, 13>>
    /\ GetIsolationRole = 11
    /\ InList(Subject, isolated_users)
    /\ member_roles[Subject] = {13}


\* ----------------------------------------------------------------- C26
\* C26: isolation state is confined to the server where it was applied: a
\* member isolated only in one server is not banned by a join event in a
\* different server, and an unisolate or cleanup run in that other server does
\* not remove the member's isolated mark.  (Every mark in these behaviours was
\* put by an isolate in the first guild: the store starts with none, and no
\* isolate runs in the second.)
C26_IsolationStaysInItsGuild ==
    [][ /\ Ran("join_elsewhere") => elsewhere'.banned = elsewhere.banned
        /\ (Ran("unisolate_elsewhere") \/ Ran("cleanup_elsewhere"))
              => isolated_users' = isolated_users ]_vars

\* Subject, isolated in the first guild and a member of it still, joined the
\* second guild and was banned there
C26_BannedElsewhere ==
    /\ lastOp.op = "join_elsewhere"
    /\ lastOp.reply = "banned"
    /\ lastOp.target = Subject
    /\ Subject \in elsewhere.banned
    /\ Subject \notin banned
    /\ InList(Subject, isolated_users)
    /\ GetIsolationRole \in member_roles[Subject]

\* Subject holds the first guild's isolation role, and an unisolate called in
\* the second guild has taken the mark off the list
C26_UnmarkedElsewhere ==
    /\ lastOp.op = "unisolate_elsewhere"
    /\ lastOp.reply = "restored"
    /\ lastOp.target = Subject
    /\ lastOp.was
    /\ ~InList(Subject, isolated_users)
    /\ GetIsolationRole \in member_roles[Subject]


\* ----------------------------------------------------------------- C27
\* C27: when a member whose roles were fully stripped by a successful role
\* swap is unisolated with an empty cache (after a restart or clearcache), the
\* fallback removes only the isolation role, so the member ends with no
\* non-default roles at all and none of the pre-isolation roles are recovered.
\* (Checked for the runs of unisolate that get to the fallback edit and have it
\* accepted.)
C27_StrippedMemberEndsBare ==
    [][ (/\ Ran("unisolate")
         /\ lastOp.shed # {} /\ lastOp.wiped
         /\ lastOp'.reply \in {"restored", "raised"}
         /\ lastOp'.editOk)
        => /\ ~lastOp'.restored
           /\ member_roles'[lastOp'.target] = {}
           /\ member_roles[lastOp'.target] \ member_roles'[lastOp'.target]
                 \subseteq {GetIsolationRole}
           /\ lastOp.shed \cap member_roles'[lastOp'.target] = {} ]_vars

\* Subject held role 12, the swap left the isolation role alone, the process
\* restarted, and unisolate took the isolation role off: no role is left
C27_Witness ==
    /\ lastOp.op = "unisolate"
    /\ lastOp.reply = "restored"
    /\ lastOp.target = Subject
    /\ lastOp.shed = {12}
    /\ lastOp.wiped
    /\ lastOp.pre = {11}
    /\ ~lastOp.had
    /\ ~lastOp.restored
    /\ lastOp.editOk
    /\ member_roles[Subject] = {}
    /\ ~InList(Subject, isolated_users)


\* ----------------------------------------------------------------- C28
\* the roles of the target's snapshot that still exist on the server and rank
\* strictly below the bot's top role
Fit(target) ==
    {r \in Cached(isolation_cache, target) : r \in guild_roles /\ r < BotTopRole}

\* C28: on the primary restoration path, the role set applied to the target is
\* exactly the cached role IDs that still exist on the server and rank
\* strictly below the bot's top role: unisolate never assigns a role that no
\* longer exists, a role at or above the bot's top role, or a role that was
\* not in the snapshot, and rolesRestored is true only if that non-empty set
\* was applied successfully.
C28_PrimaryAppliesFittingSnapshot ==
    [][ (Ran("unisolate") /\ lastOp'.restored)
        => /\ Fit(lastOp'.target) # {}
           /\ lastOp'.editOk
           /\ \E i \in 1..Len(calls') :
                 calls'[i].k = "edit" /\ calls'[i].a = lastOp'.target /\ calls'[i].ok
           /\ member_roles'[lastOp'.target] = Fit(lastOp'.target)
           /\ member_roles'[lastOp'.target] \subseteq guild_roles'
           /\ \A r \in member_roles'[lastOp'.target] :
                 r < BotTopRole /\ r \in Cached(isolation_cache, lastOp'.target) ]_vars

\* the snapshot held a role that was deleted since; the rest of it was applied
C28_Witness ==
    /\ lastOp.op = "unisolate"
    /\ lastOp.restored
    /\ lastOp.editOk
    /\ \E r \in lastOp.snap : r \notin guild_roles
    /\ member_roles[lastOp.target] # {}
    /\ member_roles[lastOp.target] = {r \in lastOp.snap : r \in guild_roles}
    /\ GetIsolationRole \notin member_roles[lastOp.target]

\* the snapshot held a role that is not below the bot's top role: it was left
\* out, the rest of the snapshot was applied
C28_HighRoleSkipped ==
    /\ lastOp.op = "unisolate"
    /\ lastOp.restored
    /\ BotTopRole \in lastOp.snap
    /\ BotTopRole \in guild_roles
    /\ member_roles[lastOp.target] = lastOp.snap \ {BotTopRole}


\* ----------------------------------------------------------------- C29
\* the commands that edit or show the configuration, and the join listener
ListCommands ==
    {"isoperm", "role_add", "role_remove", "channel_add", "channel_remove",
     "setup", "show", "clearcache", "join"}

\* the replies of a run of isolate that passed every check
IsolateDone == {"isolated", "raised"}

\* C29: isolatedMembers changes only through three operations: an ID is added
\* only by a successful isolate of that member, and removed only by unisolate
\* of that member or by cleanup; isoperm, role/channel add/remove, setup,
\* show, clearcache and on_member_join leave isolatedMembers unchanged, and
\* isolate/unisolate/cleanup leave allowedPrincipals, isolationRoles and
\* isolationChannels unchanged.
C29_ListsChangeOnlyByTheirCommands ==
    [][ /\ \A m \in Range(isolated_users') \ Range(isolated_users) :
              Ran("isolate") /\ lastOp'.target = m /\ lastOp'.reply \in IsolateDone
        /\ \A m \in Range(isolated_users) \ Range(isolated_users') :
              (Ran("unisolate") /\ lastOp'.target = m) \/ Ran("cleanup")
        /\ isolated_users' # isolated_users
              => lastOp'.op \in {"isolate", "unisolate", "cleanup"}
        /\ lastOp'.op \in ListCommands => isolated_users' = isolated_users
        /\ lastOp'.op \in {"isolate", "unisolate", "cleanup"}
              => allowed_ids' = allowed_ids /\ roles' = roles /\ channels' = channels
      ]_vars

\* Subject is on the isolated list, and a list command of the operator has
\* just changed one of the other three lists
C29_Witness ==
    /\ lastOp.op \in {"isoperm", "role_add", "role_remove", "channel_add",
                      "channel_remove", "setup"}
    /\ lastOp.caller = AppOwnerId
    /\ InList(Subject, isolated_users)
    /\ <<allowed_ids, roles, channels>> # <<<<AppOwnerId>>, <<11>>, <<21>>>>

\* cleanup took the banned Subject off the isolated list and left the other
\* three lists as they were
C29_CleanupWitness ==
    /\ lastOp.op = "cleanup"
    /\ lastOp.updated = 1
    /\ Subject \in banned
    /\ ~InList(Subject, isolated_users)
    /\ <<allowed_ids, roles, channels>> = <<<<AppOwnerId>>, <<11>>, <<21>>>>

====
